---- MODULE Spec2Model ----
(***************************************************************************)
(* Model of the kanga KiCad s-expression decoders.                         *)
(*                                                                         *)
(* Two decoders live in the repository: the hand-written TryFrom           *)
(* implementations of kanga-kicad-parser (common/*.rs, sch.rs) and the     *)
(* matcher that the sexpr! macro of kanga-sexpr-macro generates from a     *)
(* shape declaration (ks_struct.rs, ks_struct/shape.rs).  Both are pure    *)
(* functions of an input tree.  They are modelled as operators, and the    *)
(* state machine applies one decoder to one input tree per behaviour.      *)
(*                                                                         *)
(* Values (lexpr::Value) are tagged tuples:                                *)
(*   <<"null">>  <<"sym", s>>  <<"str", s>>  <<"int", i>>  <<"flt", q>>     *)
(*   <<"bool", b>>  <<"cons", car, cdr>>                                   *)
(* A float q stands for the real number q / (FloatDen * NmPerMm): read as  *)
(* millimetres it is q / FloatDen nanometres, so the model holds lengths   *)
(* with a fractional number of nanometres exactly.                         *)
(***************************************************************************)
EXTENDS Integers, Sequences, FiniteSets, TLC

VARIABLES decoder, input, result

vars == <<decoder, input, result>>

(***************************************************************************)
(* Bounds of the model.                                                    *)
(***************************************************************************)
\* Longest argument list of a positional record in the inputs.
MaxArgs == 5
\* Longest element list of a keyed record in the inputs.
MaxElems == 4
\* Largest magnitude, in nanometres, of a length that is serialized.
MaxNm == 20
\* Longest element list of a schematic in the inputs.
MaxSchElems == 2
\* Longest cursor handed to a single field parser.
MaxCursor == 2

(***************************************************************************)
(* Program constants.                                                      *)
(***************************************************************************)
\* The factor 1e6 of `(v * 1e6) as i64`.
NmPerMm == 1000000
\* Denominator of the fractional nanometres a float of the model carries.
FloatDen == 4

(***************************************************************************)
(* lexpr::Value                                                            *)
(***************************************************************************)
Null == <<"null">>
Sym(s) == <<"sym", s>>
Str(s) == <<"str", s>>
IntV(i) == <<"int", i>>
Flt(q) == <<"flt", q>>
Cons(a, d) == <<"cons", a, d>>

IsCons(v) == v[1] = "cons"
IsNull(v) == v[1] = "null"
IsSymbol(v) == v[1] = "sym"
IsStr(v) == v[1] = "str"
IsNumber(v) == v[1] \in {"int", "flt"}
Car(v) == v[2]
Cdr(v) == v[3]

\* Number::as_f64: every number converts; an integer i becomes i.0.
AsF64(v) == IF v[1] = "flt" THEN v[2] ELSE v[2] * FloatDen * NmPerMm

\* The proper list of the elements of a sequence.
RECURSIVE ListFrom(_, _)
ListFrom(s, tail) ==
  IF s = <<>> THEN tail ELSE Cons(Head(s), ListFrom(Tail(s), tail))

List(s) == ListFrom(s, Null)

\* The elements of the pairs chained from v, up to the first non-pair.
RECURSIVE Elements(_)
Elements(v) == IF IsCons(v) THEN <<Car(v)>> \o Elements(Cdr(v)) ELSE <<>>

\* The value that ends the chain of pairs from v (Null for a proper list).
RECURSIVE Terminator(_)
Terminator(v) == IF IsCons(v) THEN Terminator(Cdr(v)) ELSE v

IsProperList(v) == IsNull(Terminator(v))

(***************************************************************************)
(* Result<T, ParseError> and Option<T>                                     *)
(***************************************************************************)
Ok(x) == <<"ok", x>>
Err(e) == <<"err", e>>
IsOk(r) == r[1] = "ok"
IsErr(r) == r[1] = "err"
Val(r) == r[2]
ErrKind(r) == r[2][1]

None == <<"none">>
Some(x) == <<"some", x>>
IsSome(o) == o[1] = "some"

(***************************************************************************)
(* Float to integer casts of Rust (`as i64`, `as u64`) after `* 1e6`.      *)
(* The product q / FloatDen is exact in the model.                         *)
(***************************************************************************)
\* (v * 1e6) as i64: truncation toward zero.
MmToI64(q) == IF q >= 0 THEN q \div FloatDen ELSE -((-q) \div FloatDen)

\* (v * 1e6) as u64: truncation toward zero, negative values saturate to 0.
MmToU64(q) == IF q >= 0 THEN q \div FloatDen ELSE 0

(***************************************************************************)
(* LexprExt for Value (lexpr_ext.rs)                                       *)
(***************************************************************************)
expect_cons(v) == IF IsCons(v) THEN Ok(v) ELSE Err(<<"ExpectedList", v>>)

expect_null(v) == IF IsNull(v) THEN Ok(Null) ELSE Err(<<"ExpectedNil", v>>)

\* expect_bool for Value: the symbols yes/y/true/t and no/n/false/f, a
\* Value::Bool, and Value::Nil or Value::Null (false).
expect_bool(v) ==
  IF IsSymbol(v)
  THEN IF v[2] \in {"yes", "y", "true", "t"} THEN Ok(TRUE)
       ELSE IF v[2] \in {"no", "n", "false", "f"} THEN Ok(FALSE)
       ELSE Err(<<"Unexpected", v>>)
  ELSE IF v[1] = "bool" THEN Ok(v[2])
  ELSE IF v[1] \in {"nil", "null"} THEN Ok(FALSE)
  ELSE Err(<<"Unexpected", v>>)

expect_cons_with_any_symbol_head(v) ==
  IF ~IsCons(v) THEN Err(<<"ExpectedList", v>>)
  ELSE IF ~IsSymbol(Car(v)) THEN Err(<<"ExpectedListSymbolHead", v>>)
  ELSE Ok(<<Car(v)[2], Cdr(v)>>)

expect_symbol(v, symbol) ==
  IF ~(IsSymbol(v) /\ v[2] = symbol) THEN Err(<<"ExpectedSymbol", v, symbol>>)
  ELSE Ok(Null)

\* A variant that takes any atom at the head for a string.
expect_cons_with_any_str_head_any_atom(v) ==
  IF ~IsCons(v) THEN Err(<<"ExpectedList", v>>)
  ELSE IF IsCons(Car(v)) THEN Err(<<"ExpectedListStrHead", v>>)
  ELSE Ok(<<IF IsStr(Car(v)) THEN Car(v)[2] ELSE "", Cdr(v)>>)

expect_cons_with_any_str_head(v) ==
  IF ~IsCons(v) THEN Err(<<"ExpectedList", v>>)
  ELSE IF ~IsStr(Car(v)) THEN Err(<<"ExpectedListStrHead", v>>)
  ELSE Ok(<<Car(v)[2], Cdr(v)>>)

expect_cons_with_any_f64_head(v) ==
  IF ~IsCons(v) THEN Err(<<"ExpectedList", v>>)
  ELSE IF ~IsNumber(Car(v)) THEN Err(<<"ExpectedListFloatHead", v>>)
  ELSE Ok(<<AsF64(Car(v)), Cdr(v)>>)

expect_cons_with_any_i64_head(v) ==
  IF ~IsCons(v) THEN Err(<<"ExpectedList", v>>)
  ELSE IF Car(v)[1] # "int" THEN Err(<<"ExpectedListIntHead", v>>)
  ELSE Ok(<<Car(v)[2], Cdr(v)>>)

\* A variant whose ExpectedSymbol carries the head instead of the value.
expect_cons_with_symbol_head_carrying_head(v, symbol) ==
  LET r == expect_cons_with_any_symbol_head(v) IN
  IF IsErr(r) THEN r
  ELSE IF Val(r)[1] # symbol THEN Err(<<"ExpectedSymbol", Car(v), symbol>>)
  ELSE Ok(Val(r)[2])

expect_cons_with_symbol_head(v, symbol) ==
  LET r == expect_cons_with_any_symbol_head(v) IN
  IF IsErr(r) THEN r
  ELSE IF Val(r)[1] # symbol THEN Err(<<"ExpectedSymbol", v, symbol>>)
  ELSE Ok(Val(r)[2])

(***************************************************************************)
(* LexprExt for Cons (lexpr_ext.rs): the receiver is a pair already.       *)
(***************************************************************************)
Cons_expect_bool(c) == Err(<<"Unexpected", c>>)

Cons_expect_cons(c) == Ok(c)

Cons_expect_null(c) == Err(<<"ExpectedNil", c>>)

Cons_expect_symbol(c, symbol) == Err(<<"ExpectedSymbol", c, symbol>>)

\* A variant that takes any number at the head, as the f64 operation does.
Cons_expect_cons_with_any_i64_head_any_number(c) ==
  IF ~IsNumber(Car(c)) THEN Err(<<"ExpectedListIntHead", c>>)
  ELSE Ok(<<Car(c)[2], Cdr(c)>>)

Cons_expect_cons_with_any_i64_head(c) ==
  IF Car(c)[1] # "int" THEN Err(<<"ExpectedListIntHead", c>>)
  ELSE Ok(<<Car(c)[2], Cdr(c)>>)

Cons_expect_cons_with_any_f64_head(c) ==
  IF ~IsNumber(Car(c)) THEN Err(<<"ExpectedListFloatHead", c>>)
  ELSE Ok(<<AsF64(Car(c)), Cdr(c)>>)

Cons_expect_cons_with_any_str_head(c) ==
  IF ~IsStr(Car(c)) THEN Err(<<"ExpectedListStrHead", c>>)
  ELSE Ok(<<Car(c)[2], Cdr(c)>>)

Cons_expect_cons_with_any_symbol_head(c) ==
  IF ~IsSymbol(Car(c)) THEN Err(<<"ExpectedListSymbolHead", c>>)
  ELSE Ok(<<Car(c)[2], Cdr(c)>>)

Cons_expect_cons_with_symbol_head(c, symbol) ==
  LET r == Cons_expect_cons_with_any_symbol_head(c) IN
  IF IsErr(r) THEN r
  ELSE IF Val(r)[1] # symbol THEN Err(<<"ExpectedSymbol", c, symbol>>)
  ELSE Ok(Val(r)[2])

\* The operations of the trait LexprExt.
LexprOps ==
  {"expect_bool", "expect_cons", "expect_null", "expect_symbol",
   "expect_cons_with_symbol_head", "expect_cons_with_any_i64_head",
   "expect_cons_with_any_f64_head", "expect_cons_with_any_str_head",
   "expect_cons_with_any_symbol_head"}

\* <Cons as LexprExt>::op(c, ..).
Cons_expect(op, c, symbol) ==
  CASE op = "expect_bool" -> Cons_expect_bool(c)
    [] op = "expect_cons" -> Cons_expect_cons(c)
    [] op = "expect_null" -> Cons_expect_null(c)
    [] op = "expect_symbol" -> Cons_expect_symbol(c, symbol)
    [] op = "expect_cons_with_symbol_head" ->
         Cons_expect_cons_with_symbol_head(c, symbol)
    [] op = "expect_cons_with_any_i64_head" ->
         Cons_expect_cons_with_any_i64_head(c)
    [] op = "expect_cons_with_any_f64_head" ->
         Cons_expect_cons_with_any_f64_head(c)
    [] op = "expect_cons_with_any_str_head" ->
         Cons_expect_cons_with_any_str_head(c)
    [] op = "expect_cons_with_any_symbol_head" ->
         Cons_expect_cons_with_any_symbol_head(c)

\* <Value as LexprExt>::op(v, ..).
Value_expect(op, v, symbol) ==
  CASE op = "expect_bool" -> expect_bool(v)
    [] op = "expect_cons" -> expect_cons(v)
    [] op = "expect_null" -> expect_null(v)
    [] op = "expect_symbol" -> expect_symbol(v, symbol)
    [] op = "expect_cons_with_symbol_head" ->
         expect_cons_with_symbol_head(v, symbol)
    [] op = "expect_cons_with_any_i64_head" ->
         expect_cons_with_any_i64_head(v)
    [] op = "expect_cons_with_any_f64_head" ->
         expect_cons_with_any_f64_head(v)
    [] op = "expect_cons_with_any_str_head" ->
         expect_cons_with_any_str_head(v)
    [] op = "expect_cons_with_any_symbol_head" ->
         expect_cons_with_any_symbol_head(v)

\* impl_try_from_cons_value!: TryFrom<&Value> in terms of TryFrom<&Cons>.
\* try_from_cons is Self::try_from(cons), taken only when value is a pair.
impl_try_from_cons_value(value, try_from_cons) ==
  LET cons == expect_cons(value) IN
  IF IsErr(cons) THEN cons ELSE try_from_cons

(***************************************************************************)
(* Color (common/color.rs)                                                 *)
(***************************************************************************)
Color_try_from(cons) ==
  LET r0 == Cons_expect_cons_with_symbol_head(cons, "color") IN
  IF IsErr(r0) THEN r0 ELSE
  LET r1 == expect_cons_with_any_f64_head(Val(r0)) IN
  IF IsErr(r1) THEN r1 ELSE
  LET r2 == expect_cons_with_any_f64_head(Val(r1)[2]) IN
  IF IsErr(r2) THEN r2 ELSE
  LET r3 == expect_cons_with_any_f64_head(Val(r2)[2]) IN
  IF IsErr(r3) THEN r3 ELSE
  LET rest == Val(r3)[2]
      rgb == [red |-> Val(r1)[1], green |-> Val(r2)[1], blue |-> Val(r3)[1]]
  IN
  IF IsNull(rest) THEN Ok(rgb @@ [alpha |-> None])
  ELSE
    LET r4 == expect_cons_with_any_f64_head(rest) IN
    IF IsErr(r4) THEN r4 ELSE
    LET n == expect_null(Val(r4)[2]) IN
    IF IsErr(n) THEN n
    ELSE Ok(rgb @@ [alpha |-> Some(Val(r4)[1])])

Color_try_from_value(value) ==
  impl_try_from_cons_value(value, Color_try_from(value))

(***************************************************************************)
(* Position (common/position.rs)                                           *)
(***************************************************************************)
Position_try_from_xy_cons(cons) ==
  LET r1 == expect_cons_with_any_f64_head(cons) IN
  IF IsErr(r1) THEN r1 ELSE
  LET r2 == expect_cons_with_any_f64_head(Val(r1)[2]) IN
  IF IsErr(r2) THEN r2 ELSE
  LET rest == Val(r2)[2]
      xy == [x |-> MmToI64(Val(r1)[1]), y |-> MmToI64(Val(r2)[1])]
  IN
  IF ~IsNull(rest) THEN
    LET r3 == expect_cons_with_any_f64_head(rest) IN
    IF IsErr(r3) THEN r3 ELSE
    LET n == expect_null(Val(r3)[2]) IN
    IF IsErr(n) THEN n
    ELSE Ok(xy @@ [angle |-> Some(Val(r3)[1])])
  ELSE Ok(xy @@ [angle |-> None])

Position_try_from(cons) ==
  LET r0 == Cons_expect_cons_with_symbol_head(cons, "at") IN
  IF IsErr(r0) THEN r0 ELSE Position_try_from_xy_cons(Val(r0))

Position_try_from_value(value) ==
  impl_try_from_cons_value(value, Position_try_from(value))

(***************************************************************************)
(* Size (common/size.rs)                                                   *)
(***************************************************************************)
\* A variant that checks the height before the width.
Size_from_mm_height_first(width, height) ==
  IF height < 0 THEN Err(<<"InvalidHeight", height>>)
  ELSE IF width < 0 THEN Err(<<"InvalidWidth", width>>)
  ELSE Ok([width |-> MmToU64(width), height |-> MmToU64(height)])

Size_from_mm(width, height) ==
  IF width < 0 THEN Err(<<"InvalidWidth", width>>)
  ELSE IF height < 0 THEN Err(<<"InvalidHeight", height>>)
  ELSE Ok([width |-> MmToU64(width), height |-> MmToU64(height)])

\* A variant that reads the width first and the height second.
Size_try_from_hw_cons_width_first(rest) ==
  LET r1 == expect_cons_with_any_f64_head(rest) IN
  IF IsErr(r1) THEN r1 ELSE
  LET r2 == expect_cons_with_any_f64_head(Val(r1)[2]) IN
  IF IsErr(r2) THEN r2 ELSE
  LET n == expect_null(Val(r2)[2]) IN
  IF IsErr(n) THEN n
  ELSE Size_from_mm(Val(r1)[1], Val(r2)[1])

Size_try_from_hw_cons(rest) ==
  LET r1 == expect_cons_with_any_f64_head(rest) IN
  IF IsErr(r1) THEN r1 ELSE
  LET r2 == expect_cons_with_any_f64_head(Val(r1)[2]) IN
  IF IsErr(r2) THEN r2 ELSE
  LET n == expect_null(Val(r2)[2]) IN
  IF IsErr(n) THEN n
  ELSE Size_from_mm(Val(r2)[1], Val(r1)[1])

Size_try_from(cons) ==
  LET r0 == Cons_expect_cons_with_symbol_head(cons, "size") IN
  IF IsErr(r0) THEN r0 ELSE Size_try_from_hw_cons(Val(r0))

Size_try_from_value(value) ==
  impl_try_from_cons_value(value, Size_try_from(value))

(***************************************************************************)
(* Paper (common/paper.rs)                                                 *)
(***************************************************************************)
PaperSizes == {"A0", "A1", "A2", "A3", "A4", "A5", "A", "B", "C", "D", "E"}

PaperSize_from_str(str) ==
  IF str \in PaperSizes THEN Ok(str) ELSE Err(<<"InvalidPaperSize", str>>)

Paper_try_from(cons) ==
  LET r0 == Cons_expect_cons_with_symbol_head(cons, "paper") IN
  IF IsErr(r0) THEN r0 ELSE
  LET r1 == expect_cons_with_any_str_head(Val(r0)) IN
  IF IsErr(r1) THEN r1 ELSE
  LET paper_size_str == Val(r1)[1]
      rest == Val(r1)[2]
  IN
  IF paper_size_str = "User"
  THEN LET h == expect_cons_with_any_f64_head(rest) IN
       IF IsErr(h) THEN h ELSE
       LET w == expect_cons_with_any_f64_head(Val(h)[2]) IN
       IF IsErr(w) THEN w ELSE
       LET n == expect_null(Val(w)[2]) IN
       IF IsErr(n) THEN n ELSE
       LET size == Size_from_mm(Val(w)[1], Val(h)[1]) IN
       IF IsErr(size) THEN size
       ELSE Ok([paper_size |-> <<"User", Val(size)>>,
                orientation |-> "Landscape"])
  ELSE LET paper_size == PaperSize_from_str(paper_size_str) IN
       IF IsErr(paper_size) THEN paper_size
       ELSE IF ~IsNull(rest)
       THEN LET p == expect_cons_with_symbol_head(rest, "portrait") IN
            IF IsErr(p) THEN p ELSE
            LET n == expect_null(Val(p)) IN
            IF IsErr(n) THEN n
            ELSE Ok([paper_size |-> <<Val(paper_size)>>,
                     orientation |-> "Portrait"])
       ELSE Ok([paper_size |-> <<Val(paper_size)>>,
                orientation |-> "Landscape"])

Paper_try_from_value(value) ==
  impl_try_from_cons_value(value, Paper_try_from(value))

(***************************************************************************)
(* The keyed records.  Each try_from scans the elements after the head:    *)
(*   while !rest.is_null() {                                               *)
(*       let r_cons = rest.expect_cons()?;                                 *)
(*       let element = r_cons.car();                                       *)
(*       rest = r_cons.cdr();                                              *)
(*       <body of the record>                                              *)
(*   }                                                                     *)
(* For a record X, X_body(element, s) is the loop body: the slots s        *)
(* updated by the element, or the error the body returns; X_scan(rest, r)  *)
(* is the loop from the cursor rest with r the slots so far, or the error   *)
(* a `?` of the body returned, which ends the loop.                        *)
(***************************************************************************)
\* Strings that Uuid::parse_str accepts.
ValidUuids == {"u1"}

\* `let (value, cdr) = cdr.expect_cons_with_any_float_head()?;
\*  cdr.expect_null()?;` : the single float of a (key value) element.
SingleFloat(cdr) ==
  LET r == expect_cons_with_any_f64_head(cdr) IN
  IF IsErr(r) THEN r ELSE
  LET n == expect_null(Val(r)[2]) IN
  IF IsErr(n) THEN n ELSE Ok(Val(r)[1])

\* The uuid arm: a symbol head, expect_null, then Uuid::parse_str.
UuidArm(cdr) ==
  LET r == expect_cons_with_any_symbol_head(cdr) IN
  IF IsErr(r) THEN r ELSE
  LET n == expect_null(Val(r)[2]) IN
  IF IsErr(n) THEN n
  ELSE IF Val(r)[1] \in ValidUuids THEN Ok(Val(r)[1])
  ELSE Err(<<"InvalidUuid", Val(r)[1]>>)

\* Sets a singular slot as the match arms of the hand-written records do:
\* the slot is assigned whatever it held.
SetSlot(s, field, x) == Ok([s EXCEPT ![field] = Some(x)])

\* `slot = Some(decode?)`: the error of the decode, or the slot set.
SetSlotFrom(s, field, r) ==
  IF IsErr(r) THEN r ELSE SetSlot(s, field, Val(r))

\* `field = decode?`: the error of the decode, or the field overwritten.
SetFieldFrom(s, field, r) ==
  IF IsErr(r) THEN r ELSE Ok([s EXCEPT ![field] = Val(r)])

\* `vec.push(decode?)`: the error of the decode, or the value appended.
PushFrom(s, field, r) ==
  IF IsErr(r) THEN r ELSE Ok([s EXCEPT ![field] = Append(@, Val(r))])

\* `Variant(decode?)`: the decoded value wrapped in an enum variant.
Tagged(variant, r) == IF IsErr(r) THEN r ELSE Ok(<<variant, Val(r)>>)

(***************************************************************************)
(* LineStyle (common/line_style.rs), Fill and FillType (common/fill.rs)    *)
(***************************************************************************)
LineStyles == {"dash", "dash_dot", "dash_dot_dot", "dot", "default", "solid"}
FillTypes == {"none", "outline", "background"}

\* A (type <symbol>) element decoded against a set of symbols.
TypeSymbol_try_from(cons, symbols) ==
  LET r0 == Cons_expect_cons_with_symbol_head(cons, "type") IN
  IF IsErr(r0) THEN r0 ELSE
  LET r1 == expect_cons_with_any_symbol_head(Val(r0)) IN
  IF IsErr(r1) THEN r1 ELSE
  LET n == expect_null(Val(r1)[2]) IN
  IF IsErr(n) THEN n
  ELSE IF Val(r1)[1] \in symbols THEN Ok(Val(r1)[1])
  ELSE Err(<<"Unexpected", cons>>)

LineStyle_try_from(cons) == TypeSymbol_try_from(cons, LineStyles)
LineStyle_try_from_value(value) ==
  impl_try_from_cons_value(value, LineStyle_try_from(value))

FillType_try_from(cons) == TypeSymbol_try_from(cons, FillTypes)
FillType_try_from_value(value) ==
  impl_try_from_cons_value(value, FillType_try_from(value))

Fill_body(element, s) ==
  LET k == expect_cons_with_any_symbol_head(element) IN
  IF IsErr(k) THEN k
  ELSE IF Val(k)[1] = "type"
  THEN SetFieldFrom(s, "fill_type", FillType_try_from_value(element))
  ELSE Err(<<"Unexpected", element>>)

RECURSIVE Fill_scan(_, _)
Fill_scan(rest, slots) ==
  IF IsErr(slots) \/ IsNull(rest) THEN slots
  ELSE IF ~IsCons(rest) THEN expect_cons(rest)
  ELSE Fill_scan(Cdr(rest), Fill_body(Car(rest), Val(slots)))

Fill_try_from(cons) ==
  LET r0 == Cons_expect_cons_with_symbol_head(cons, "fill") IN
  IF IsErr(r0) THEN r0
  ELSE Fill_scan(Val(r0), Ok([fill_type |-> "none"]))

Fill_try_from_value(value) ==
  impl_try_from_cons_value(value, Fill_try_from(value))

(***************************************************************************)
(* Stroke (common/stroke.rs)                                               *)
(***************************************************************************)
Stroke_body(element, s) ==
  LET k == expect_cons_with_any_symbol_head(element) IN
  IF IsErr(k) THEN k ELSE
  LET key == Val(k)[1]
      cdr == Val(k)[2]
  IN
  CASE key = "width" ->
         LET r == SingleFloat(cdr) IN
         IF IsErr(r) THEN r ELSE SetSlot(s, "width", MmToI64(Val(r)))
    [] key = "type" ->
         SetSlotFrom(s, "line_style", LineStyle_try_from_value(element))
    [] key = "color" ->
         SetSlotFrom(s, "color", Color_try_from_value(element))
    [] OTHER -> Err(<<"Unexpected", element>>)

RECURSIVE Stroke_scan(_, _)
Stroke_scan(rest, slots) ==
  IF IsErr(slots) \/ IsNull(rest) THEN slots
  ELSE IF ~IsCons(rest) THEN expect_cons(rest)
  ELSE Stroke_scan(Cdr(rest), Stroke_body(Car(rest), Val(slots)))

\* The variables of Stroke::try_from before the loop.
Stroke_init == [width |-> None, line_style |-> None, color |-> None]

Stroke_try_from(cons) ==
  LET r0 == Cons_expect_cons_with_symbol_head(cons, "stroke") IN
  IF IsErr(r0) THEN r0
  ELSE Stroke_scan(Val(r0), Ok(Stroke_init))

Stroke_try_from_value(value) ==
  impl_try_from_cons_value(value, Stroke_try_from(value))

(***************************************************************************)
(* SchematicJunction and SchematicNoConnect (sch.rs)                       *)
(***************************************************************************)
\* ParseError::missing_field
missing_field(struct_name, field_name, value) ==
  Err(<<"MissingField", struct_name, field_name, value>>)

\* The same checks made from the last required field to the first.
CheckRequired_last_first(struct_name, required, s, cons) ==
  LET missing == {i \in 1..Len(required) : ~IsSome(s[required[i][1]])} IN
  IF missing = {} THEN Ok(s)
  ELSE missing_field(struct_name,
                     required[CHOOSE i \in missing :
                                \A j \in missing : j <= i][2],
                     cons)

\* The `let Some(x) = x else { return Err(missing_field(..)) }` checks made
\* after the scan, in order: required is a sequence of <<slot, field name>>.
RECURSIVE CheckRequired(_, _, _, _)
CheckRequired(struct_name, required, s, cons) ==
  IF required = <<>> THEN Ok(s)
  ELSE IF ~IsSome(s[Head(required)[1]])
  THEN missing_field(struct_name, Head(required)[2], cons)
  ELSE CheckRequired(struct_name, Tail(required), s, cons)

\* The record built from the slots: required slots are unwrapped.
Unwrap(s, required) ==
  [f \in DOMAIN s |->
     IF \E i \in 1..Len(required) : required[i][1] = f THEN s[f][2] ELSE s[f]]

Finish(struct_name, required, scan, cons) ==
  IF IsErr(scan) THEN scan
  ELSE LET c == CheckRequired(struct_name, required, Val(scan), cons) IN
       IF IsErr(c) THEN c ELSE Ok(Unwrap(Val(scan), required))

SchematicJunction_body(element, s) ==
  LET k == expect_cons_with_any_symbol_head(element) IN
  IF IsErr(k) THEN k ELSE
  LET key == Val(k)[1]
      cdr == Val(k)[2]
  IN
  CASE key = "at" ->
         SetSlotFrom(s, "position", Position_try_from_value(element))
    [] key = "diameter" ->
         LET r == SingleFloat(cdr) IN
         IF IsErr(r) THEN r ELSE SetSlot(s, "diameter", MmToU64(Val(r)))
    [] key = "color" ->
         SetSlotFrom(s, "color", Color_try_from_value(element))
    [] key = "uuid" ->
         SetSlotFrom(s, "uuid", UuidArm(cdr))
    [] OTHER -> Err(<<"Unexpected", element>>)

RECURSIVE SchematicJunction_scan(_, _)
SchematicJunction_scan(rest, slots) ==
  IF IsErr(slots) \/ IsNull(rest) THEN slots
  ELSE IF ~IsCons(rest) THEN expect_cons(rest)
  ELSE SchematicJunction_scan(Cdr(rest),
            SchematicJunction_body(Car(rest), Val(slots)))

SchematicJunction_required ==
  <<<<"position", "at">>, <<"diameter", "diameter">>, <<"color", "color">>,
    <<"uuid", "uuid">>>>

SchematicJunction_try_from(cons) ==
  LET r0 == Cons_expect_cons_with_symbol_head(cons, "junction") IN
  IF IsErr(r0) THEN r0
  ELSE Finish("junction", SchematicJunction_required,
              SchematicJunction_scan(Val(r0),
                        Ok([position |-> None, diameter |-> None,
                         color |-> None, uuid |-> None])),
              cons)

SchematicJunction_try_from_value(value) ==
  impl_try_from_cons_value(value, SchematicJunction_try_from(value))

SchematicNoConnect_body(element, s) ==
  LET k == expect_cons_with_any_symbol_head(element) IN
  IF IsErr(k) THEN k ELSE
  LET key == Val(k)[1]
      cdr == Val(k)[2]
  IN
  CASE key = "at" ->
         SetSlotFrom(s, "position", Position_try_from_value(element))
    [] key = "uuid" ->
         SetSlotFrom(s, "uuid", UuidArm(cdr))
    [] OTHER -> Err(<<"Unexpected", element>>)

RECURSIVE SchematicNoConnect_scan(_, _)
SchematicNoConnect_scan(rest, slots) ==
  IF IsErr(slots) \/ IsNull(rest) THEN slots
  ELSE IF ~IsCons(rest) THEN expect_cons(rest)
  ELSE SchematicNoConnect_scan(Cdr(rest),
            SchematicNoConnect_body(Car(rest), Val(slots)))

SchematicNoConnect_required == <<<<"position", "at">>, <<"uuid", "uuid">>>>

SchematicNoConnect_try_from(cons) ==
  LET r0 == Cons_expect_cons_with_symbol_head(cons, "no_connect") IN
  IF IsErr(r0) THEN r0
  ELSE Finish("no_connect", SchematicNoConnect_required,
              SchematicNoConnect_scan(Val(r0),
                        Ok([position |-> None, uuid |-> None])),
              cons)

SchematicNoConnect_try_from_value(value) ==
  impl_try_from_cons_value(value, SchematicNoConnect_try_from(value))

(***************************************************************************)
(* TitleBlock (common/title_block.rs)                                      *)
(***************************************************************************)
TitleBlock_body(element, s) ==
  LET k == expect_cons_with_any_symbol_head(element) IN
  IF IsErr(k) THEN k ELSE
  LET key == Val(k)[1]
      cdr == Val(k)[2]
  IN
  IF key = "comment"
  THEN LET r1 == expect_cons_with_any_i64_head(cdr) IN
       IF IsErr(r1) THEN r1 ELSE
       LET r2 == expect_cons_with_any_str_head(Val(r1)[2]) IN
       IF IsErr(r2) THEN r2 ELSE
       LET n == expect_null(Val(r2)[2]) IN
       IF IsErr(n) THEN n
       ELSE Ok([s EXCEPT !.comments = (Val(r1)[1] :> Val(r2)[1]) @@ @])
  ELSE LET r == expect_cons_with_any_str_head(cdr) IN
       IF IsErr(r) THEN r ELSE
       LET n == expect_null(Val(r)[2]) IN
       IF IsErr(n) THEN n
       ELSE IF key \in {"title", "date", "rev", "company"}
       THEN Ok([s EXCEPT ![key] = Val(r)[1]])
       ELSE Ok(s)

RECURSIVE TitleBlock_scan(_, _)
TitleBlock_scan(rest, slots) ==
  IF IsErr(slots) \/ IsNull(rest) THEN slots
  ELSE IF ~IsCons(rest) THEN expect_cons(rest)
  ELSE TitleBlock_scan(Cdr(rest), TitleBlock_body(Car(rest), Val(slots)))

\* The variables of TitleBlock::try_from before the loop.
TitleBlock_init ==
  [title |-> "", date |-> "", rev |-> "", company |-> "", comments |-> <<>>]

TitleBlock_try_from(cons) ==
  LET r0 == Cons_expect_cons_with_symbol_head(cons, "title_block") IN
  IF IsErr(r0) THEN r0
  ELSE TitleBlock_scan(Val(r0), Ok(TitleBlock_init))

TitleBlock_try_from_value(value) ==
  impl_try_from_cons_value(value, TitleBlock_try_from(value))

(***************************************************************************)
(* Font, TextJustify, TextEffects (common/font.rs, text_justify.rs,        *)
(* text_effects.rs)                                                        *)
(***************************************************************************)
Font_body(element, s) ==
  IF IsCons(element)
  THEN LET k == Cons_expect_cons_with_any_symbol_head(element) IN
       IF IsErr(k) THEN k ELSE
       LET key == Val(k)[1]
           cdr == Val(k)[2]
       IN
       CASE key = "face" ->
              LET r == expect_cons_with_any_str_head(cdr) IN
              IF IsErr(r) THEN r ELSE
              LET n == expect_null(Val(r)[2]) IN
              IF IsErr(n) THEN n ELSE SetSlot(s, "face", Val(r)[1])
         [] key = "size" ->
              SetSlotFrom(s, "size", Size_try_from(element))
         [] key = "thickness" ->
              LET r == SingleFloat(cdr) IN
              IF IsErr(r) THEN r ELSE SetSlot(s, "thickness", MmToI64(Val(r)))
         [] key = "line_spacing" ->
              LET r == SingleFloat(cdr) IN
              IF IsErr(r) THEN r
              ELSE SetSlot(s, "line_spacing", MmToI64(Val(r)))
         [] OTHER -> Err(<<"Unexpected", element>>)
  ELSE IF IsSymbol(element)
  THEN CASE element[2] = "bold" -> Ok([s EXCEPT !.bold = TRUE])
         [] element[2] = "italic" -> Ok([s EXCEPT !.italic = TRUE])
         [] OTHER -> Err(<<"Unexpected", element>>)
  ELSE Err(<<"Unexpected", element>>)

RECURSIVE Font_scan(_, _)
Font_scan(rest, slots) ==
  IF IsErr(slots) \/ IsNull(rest) THEN slots
  ELSE IF ~IsCons(rest) THEN expect_cons(rest)
  ELSE Font_scan(Cdr(rest), Font_body(Car(rest), Val(slots)))

Font_required == <<<<"size", "size">>>>

Font_try_from(cons) ==
  LET r0 == Cons_expect_cons_with_symbol_head(cons, "font") IN
  IF IsErr(r0) THEN r0
  ELSE Finish("font", Font_required,
              Font_scan(Val(r0),
                        Ok([face |-> None, size |-> None, thickness |-> None,
                         bold |-> FALSE, italic |-> FALSE,
                         line_spacing |-> None])),
              cons)

Font_try_from_value(value) ==
  impl_try_from_cons_value(value, Font_try_from(value))

TextJustify_body(car, s) ==
  IF ~IsSymbol(car) THEN Err(<<"Unexpected", car>>)
  ELSE CASE car[2] = "left" -> Ok([s EXCEPT !.horiz_justify = "left"])
         [] car[2] = "right" -> Ok([s EXCEPT !.horiz_justify = "right"])
         [] car[2] = "top" -> Ok([s EXCEPT !.vert_justify = "top"])
         [] car[2] = "bottom" -> Ok([s EXCEPT !.vert_justify = "bottom"])
         [] car[2] = "mirror" -> Ok([s EXCEPT !.mirror = TRUE])
         [] OTHER -> Err(<<"Unexpected", car>>)

RECURSIVE TextJustify_scan(_, _)
TextJustify_scan(rest, slots) ==
  IF IsErr(slots) \/ IsNull(rest) THEN slots
  ELSE IF ~IsCons(rest) THEN expect_cons(rest)
  ELSE TextJustify_scan(Cdr(rest), TextJustify_body(Car(rest), Val(slots)))

TextJustify_try_from(cons) ==
  LET r0 == Cons_expect_cons_with_symbol_head(cons, "justify") IN
  IF IsErr(r0) THEN r0
  ELSE TextJustify_scan(Val(r0),
                 Ok([horiz_justify |-> "center", vert_justify |-> "center",
                  mirror |-> FALSE]))

TextEffects_body(element, s) ==
  IF IsCons(element)
  THEN LET k == Cons_expect_cons_with_any_symbol_head(element) IN
       IF IsErr(k) THEN k ELSE
       CASE Val(k)[1] = "font" ->
              SetSlotFrom(s, "font", Font_try_from(element))
         [] Val(k)[1] = "justify" ->
              SetSlotFrom(s, "justify", TextJustify_try_from(element))
         [] OTHER -> Err(<<"Unexpected", element>>)
  ELSE IF IsSymbol(element)
  THEN IF element[2] = "hide" THEN Ok([s EXCEPT !.hide = TRUE])
       ELSE Err(<<"Unexpected", element>>)
  ELSE Ok(s)

RECURSIVE TextEffects_scan(_, _)
TextEffects_scan(rest, slots) ==
  IF IsErr(slots) \/ IsNull(rest) THEN slots
  ELSE IF ~IsCons(rest) THEN expect_cons(rest)
  ELSE TextEffects_scan(Cdr(rest), TextEffects_body(Car(rest), Val(slots)))

TextEffects_try_from(cons) ==
  LET r0 == Cons_expect_cons_with_symbol_head(cons, "effects") IN
  IF IsErr(r0) THEN r0
  ELSE TextEffects_scan(Val(r0),
                 Ok([font |-> None, justify |-> None, hide |-> FALSE]))

TextEffects_try_from_value(value) ==
  impl_try_from_cons_value(value, TextEffects_try_from(value))

(***************************************************************************)
(* The symbol records (common/symbol.rs)                                   *)
(***************************************************************************)
SymbolPinElectricalTypes ==
  {"input", "output", "bidirectional", "tri_state", "passive", "free",
   "unspecified", "power_in", "power_out", "open_collector", "open_emitter",
   "no_connect"}

SymbolPinGraphicalStyles ==
  {"line", "inverted", "clock", "inverted_clock", "input_low", "clock_low",
   "output_low", "edge_clock_high", "non_logic"}

\* A variant whose error carries the text as a string value.
SymbolPinElectricalType_from_str_carrying_string(str) ==
  IF str \in SymbolPinElectricalTypes THEN Ok(str)
  ELSE Err(<<"Unexpected", Str(str)>>)

SymbolPinElectricalType_from_str(str) ==
  IF str \in SymbolPinElectricalTypes THEN Ok(str)
  ELSE Err(<<"Unexpected", Sym(str)>>)

SymbolPinGraphicalStyle_from_str(str) ==
  IF str \in SymbolPinGraphicalStyles THEN Ok(str)
  ELSE Err(<<"Unexpected", Sym(str)>>)

\* The loop body of SymbolPinName and of SymbolPinNumber.
PinText_body(element, s) ==
  LET k == expect_cons_with_any_symbol_head(element) IN
  IF IsErr(k) THEN k
  ELSE IF Val(k)[1] = "effects"
  THEN SetSlotFrom(s, "text_effects", TextEffects_try_from_value(element))
  ELSE Err(<<"Unexpected", element>>)

RECURSIVE PinText_scan(_, _)
PinText_scan(rest, slots) ==
  IF IsErr(slots) \/ IsNull(rest) THEN slots
  ELSE IF ~IsCons(rest) THEN expect_cons(rest)
  ELSE PinText_scan(Cdr(rest), PinText_body(Car(rest), Val(slots)))

PinText_required == <<<<"text_effects", "effects">>>>

SymbolPinName_try_from(cons) ==
  LET r0 == Cons_expect_cons_with_symbol_head(cons, "name") IN
  IF IsErr(r0) THEN r0 ELSE
  LET r1 == expect_cons_with_any_str_head(Val(r0)) IN
  IF IsErr(r1) THEN r1
  ELSE Finish("name", PinText_required,
              PinText_scan(Val(r1)[2],
                        Ok([name |-> Val(r1)[1], text_effects |-> None])),
              cons)

SymbolPinName_try_from_value(value) ==
  impl_try_from_cons_value(value, SymbolPinName_try_from(value))

SymbolPinNumber_try_from(cons) ==
  LET r0 == Cons_expect_cons_with_symbol_head(cons, "number") IN
  IF IsErr(r0) THEN r0 ELSE
  LET r1 == expect_cons_with_any_str_head(Val(r0)) IN
  IF IsErr(r1) THEN r1
  ELSE Finish("number", PinText_required,
              PinText_scan(Val(r1)[2],
                        Ok([number |-> Val(r1)[1], text_effects |-> None])),
              cons)

SymbolPinNumber_try_from_value(value) ==
  impl_try_from_cons_value(value, SymbolPinNumber_try_from(value))

SymbolPinNameDefaults_body(element, s) ==
  IF IsCons(element)
  THEN LET k == Cons_expect_cons_with_any_symbol_head(element) IN
       IF IsErr(k) THEN k
       ELSE IF Val(k)[1] = "offset"
       THEN LET r == SingleFloat(Val(k)[2]) IN
            IF IsErr(r) THEN r ELSE Ok([s EXCEPT !.offset = MmToI64(Val(r))])
       ELSE Err(<<"Unexpected", element>>)
  ELSE IF IsSymbol(element) /\ element[2] = "hide"
  THEN Ok([s EXCEPT !.hide = TRUE])
  ELSE Err(<<"Unexpected", element>>)

RECURSIVE SymbolPinNameDefaults_scan(_, _)
SymbolPinNameDefaults_scan(rest, slots) ==
  IF IsErr(slots) \/ IsNull(rest) THEN slots
  ELSE IF ~IsCons(rest) THEN expect_cons(rest)
  ELSE SymbolPinNameDefaults_scan(Cdr(rest),
            SymbolPinNameDefaults_body(Car(rest), Val(slots)))

SymbolPinNameDefaults_default == [offset |-> 0, hide |-> FALSE]

SymbolPinNameDefaults_try_from(cons) ==
  LET r0 == Cons_expect_cons_with_symbol_head(cons, "pin_names") IN
  IF IsErr(r0) THEN r0
  ELSE SymbolPinNameDefaults_scan(Val(r0), Ok(SymbolPinNameDefaults_default))

SymbolPinNameDefaults_try_from_value(value) ==
  impl_try_from_cons_value(value, SymbolPinNameDefaults_try_from(value))

SymbolPinNumberDefaults_body(element, s) ==
  IF IsSymbol(element) /\ element[2] = "hide"
  THEN Ok([s EXCEPT !.hide = TRUE])
  ELSE Err(<<"Unexpected", element>>)

RECURSIVE SymbolPinNumberDefaults_scan(_, _)
SymbolPinNumberDefaults_scan(rest, slots) ==
  IF IsErr(slots) \/ IsNull(rest) THEN slots
  ELSE IF ~IsCons(rest) THEN expect_cons(rest)
  ELSE SymbolPinNumberDefaults_scan(Cdr(rest),
            SymbolPinNumberDefaults_body(Car(rest), Val(slots)))

SymbolPinNumberDefaults_default == [hide |-> FALSE]

SymbolPinNumberDefaults_try_from(cons) ==
  LET r0 == Cons_expect_cons_with_symbol_head(cons, "pin_numbers") IN
  IF IsErr(r0) THEN r0
  ELSE SymbolPinNumberDefaults_scan(Val(r0),
                                    Ok(SymbolPinNumberDefaults_default))

SymbolPinNumberDefaults_try_from_value(value) ==
  impl_try_from_cons_value(value, SymbolPinNumberDefaults_try_from(value))

SymbolPin_body(element, s) ==
  LET k == expect_cons_with_any_symbol_head(element) IN
  IF IsErr(k) THEN k ELSE
  LET key == Val(k)[1]
      cdr == Val(k)[2]
  IN
  CASE key = "at" ->
         SetSlotFrom(s, "position", Position_try_from_value(element))
    [] key = "length" ->
         LET r == SingleFloat(cdr) IN
         IF IsErr(r) THEN r ELSE SetSlot(s, "length", MmToI64(Val(r)))
    [] key = "name" ->
         SetSlotFrom(s, "name", SymbolPinName_try_from_value(element))
    [] key = "number" ->
         SetSlotFrom(s, "number", SymbolPinNumber_try_from_value(element))
    [] OTHER -> Err(<<"Unexpected", element>>)

RECURSIVE SymbolPin_scan(_, _)
SymbolPin_scan(rest, slots) ==
  IF IsErr(slots) \/ IsNull(rest) THEN slots
  ELSE IF ~IsCons(rest) THEN expect_cons(rest)
  ELSE SymbolPin_scan(Cdr(rest), SymbolPin_body(Car(rest), Val(slots)))

SymbolPin_required ==
  <<<<"position", "position">>, <<"length", "length">>, <<"name", "name">>,
    <<"number", "number">>>>

SymbolPin_try_from(cons) ==
  LET r0 == Cons_expect_cons_with_symbol_head(cons, "pin") IN
  IF IsErr(r0) THEN r0 ELSE
  LET r1 == expect_cons_with_any_symbol_head(Val(r0)) IN
  IF IsErr(r1) THEN r1 ELSE
  LET electrical_type == SymbolPinElectricalType_from_str(Val(r1)[1]) IN
  IF IsErr(electrical_type) THEN electrical_type ELSE
  LET r2 == expect_cons_with_any_symbol_head(Val(r1)[2]) IN
  IF IsErr(r2) THEN r2 ELSE
  LET graphical_style == SymbolPinGraphicalStyle_from_str(Val(r2)[1]) IN
  IF IsErr(graphical_style) THEN graphical_style
  ELSE Finish("pin", SymbolPin_required,
              SymbolPin_scan(Val(r2)[2],
                        Ok([electrical_type |-> Val(electrical_type),
                         graphical_style |-> Val(graphical_style),
                         position |-> None, length |-> None, name |-> None,
                         number |-> None])),
              cons)

SymbolPin_try_from_value(value) ==
  impl_try_from_cons_value(value, SymbolPin_try_from(value))

SymbolGraphicArc_body(element, s) ==
  LET k == expect_cons_with_any_symbol_head(element) IN
  IF IsErr(k) THEN k ELSE
  LET key == Val(k)[1]
      cdr == Val(k)[2]
  IN
  CASE key \in {"start", "mid", "end"} ->
         SetSlotFrom(s, key, Position_try_from_xy_cons(cdr))
    [] key = "stroke" ->
         SetSlotFrom(s, "stroke", Stroke_try_from_value(element))
    [] key = "fill" ->
         SetSlotFrom(s, "fill", Fill_try_from_value(element))
    [] OTHER -> Err(<<"Unexpected", element>>)

RECURSIVE SymbolGraphicArc_scan(_, _)
SymbolGraphicArc_scan(rest, slots) ==
  IF IsErr(slots) \/ IsNull(rest) THEN slots
  ELSE IF ~IsCons(rest) THEN expect_cons(rest)
  ELSE SymbolGraphicArc_scan(Cdr(rest),
            SymbolGraphicArc_body(Car(rest), Val(slots)))

SymbolGraphicArc_required ==
  <<<<"start", "start">>, <<"mid", "mid">>, <<"end", "end">>,
    <<"stroke", "stroke">>, <<"fill", "fill">>>>

SymbolGraphicArc_try_from(cons) ==
  LET r0 == Cons_expect_cons_with_symbol_head(cons, "arc") IN
  IF IsErr(r0) THEN r0
  ELSE Finish("arc", SymbolGraphicArc_required,
              SymbolGraphicArc_scan(Val(r0),
                        Ok([start |-> None, mid |-> None, end |-> None,
                         stroke |-> None, fill |-> None])),
              cons)

SymbolGraphicArc_try_from_value(value) ==
  impl_try_from_cons_value(value, SymbolGraphicArc_try_from(value))

SymbolProperty_body(element, s) ==
  LET k == expect_cons_with_any_symbol_head(element) IN
  IF IsErr(k) THEN k ELSE
  LET id == Val(k)[1]
      cdr == Val(k)[2]
  IN
  CASE id = "id" ->
         LET r == expect_cons_with_any_i64_head(cdr) IN
         IF IsErr(r) THEN r ELSE
         LET n == expect_null(Val(r)[2]) IN
         IF IsErr(n) THEN n ELSE SetSlot(s, "identifier", Val(r)[1])
    [] id = "at" ->
         SetSlotFrom(s, "position", Position_try_from_value(element))
    [] id = "effects" ->
         SetSlotFrom(s, "text_effects", TextEffects_try_from_value(element))
    [] OTHER -> Err(<<"Unexpected", element>>)

RECURSIVE SymbolProperty_scan(_, _)
SymbolProperty_scan(rest, slots) ==
  IF IsErr(slots) \/ IsNull(rest) THEN slots
  ELSE IF ~IsCons(rest) THEN expect_cons(rest)
  ELSE SymbolProperty_scan(Cdr(rest),
            SymbolProperty_body(Car(rest), Val(slots)))

SymbolProperty_try_from(cons) ==
  LET r0 == Cons_expect_cons_with_symbol_head(cons, "property") IN
  IF IsErr(r0) THEN r0 ELSE
  LET r1 == expect_cons_with_any_str_head(Val(r0)) IN
  IF IsErr(r1) THEN r1 ELSE
  LET r2 == expect_cons_with_any_str_head(Val(r1)[2]) IN
  IF IsErr(r2) THEN r2
  ELSE SymbolProperty_scan(Val(r2)[2],
                 Ok([key |-> Val(r1)[1], value |-> Val(r2)[1],
                  identifier |-> None, position |-> None,
                  text_effects |-> None]))

SymbolProperty_try_from_value(value) ==
  impl_try_from_cons_value(value, SymbolProperty_try_from(value))

Symbol_body(element, s) ==
  LET k == expect_cons_with_any_symbol_head(element) IN
  IF IsErr(k) THEN k ELSE
  LET key == Val(k)[1]
      cdr == Val(k)[2]
  IN
  CASE key \in {"exclude_from_sim", "in_bom", "on_board"} ->
         LET v == expect_cons(cdr) IN
         IF IsErr(v) THEN v ELSE
         LET n == expect_null(Cdr(cdr)) IN
         IF IsErr(n) THEN n ELSE
         LET value == expect_bool(Car(cdr)) IN
         IF IsErr(value) THEN value ELSE SetSlot(s, key, Val(value))
    [] key = "extends" ->
         LET r == expect_cons_with_any_str_head(cdr) IN
         IF IsErr(r) THEN r ELSE SetSlot(s, "extends", Val(r)[1])
    [] key = "pin_names" ->
         SetFieldFrom(s, "pin_names",
                      SymbolPinNameDefaults_try_from_value(element))
    [] key = "pin_numbers" ->
         SetFieldFrom(s, "pin_numbers",
                      SymbolPinNumberDefaults_try_from_value(element))
    [] key = "property" ->
         PushFrom(s, "properties", SymbolProperty_try_from_value(element))
    [] key = "arc" ->
         PushFrom(s, "graphics",
                  Tagged("Arc", SymbolGraphicArc_try_from_value(element)))
    [] key = "pin" ->
         PushFrom(s, "pins", SymbolPin_try_from_value(element))
    [] OTHER -> Err(<<"Unexpected", element>>)

\* A variant of the loop that ends after the first element.
Symbol_scan_first_only(rest, slots) ==
  IF IsErr(slots) \/ IsNull(rest) THEN slots
  ELSE IF ~IsCons(rest) THEN expect_cons(rest)
  ELSE Symbol_body(Car(rest), Val(slots))

RECURSIVE Symbol_scan(_, _)
Symbol_scan(rest, slots) ==
  IF IsErr(slots) \/ IsNull(rest) THEN slots
  ELSE IF ~IsCons(rest) THEN expect_cons(rest)
  ELSE Symbol_scan(Cdr(rest), Symbol_body(Car(rest), Val(slots)))

\* The variables of Symbol::try_from before the loop.
Symbol_init(id) ==
  [id |-> id, extends |-> None,
   pin_numbers |-> SymbolPinNumberDefaults_default,
   pin_names |-> SymbolPinNameDefaults_default,
   exclude_from_sim |-> None, in_bom |-> None, on_board |-> None,
   properties |-> <<>>, graphics |-> <<>>, pins |-> <<>>]

Symbol_try_from(cons) ==
  LET r0 == Cons_expect_cons_with_symbol_head(cons, "symbol") IN
  IF IsErr(r0) THEN r0 ELSE
  LET r1 == expect_cons_with_any_str_head(Val(r0)) IN
  IF IsErr(r1) THEN r1
  ELSE Symbol_scan(Val(r1)[2], Ok(Symbol_init(Val(r1)[1])))

Symbol_try_from_value(value) ==
  impl_try_from_cons_value(value, Symbol_try_from(value))

(***************************************************************************)
(* The scan loop of a keyed record taken one iteration at a time           *)
(* (Stroke, TitleBlock, Symbol).  The loop state holds cons, the record    *)
(* the function was given, rest, the cursor, the variables set so far and  *)
(* the number of iterations made.                                          *)
(***************************************************************************)
ScanRecords == {"Stroke", "TitleBlock", "Symbol"}

Loop(cons, rest, slots) ==
  <<"loop", [cons |-> cons, rest |-> rest, slots |-> slots, n |-> 0]>>

IsLoop(r) == r[1] = "loop"

\* The code before `while !rest.is_null()`.
Scan_enter(d, cons) ==
  CASE d = "Stroke" ->
         LET r0 == Cons_expect_cons_with_symbol_head(cons, "stroke") IN
         IF IsErr(r0) THEN r0 ELSE Loop(cons, Val(r0), Stroke_init)
    [] d = "TitleBlock" ->
         LET r0 == Cons_expect_cons_with_symbol_head(cons, "title_block") IN
         IF IsErr(r0) THEN r0 ELSE Loop(cons, Val(r0), TitleBlock_init)
    [] d = "Symbol" ->
         LET r0 == Cons_expect_cons_with_symbol_head(cons, "symbol") IN
         IF IsErr(r0) THEN r0 ELSE
         LET r1 == expect_cons_with_any_str_head(Val(r0)) IN
         IF IsErr(r1) THEN r1
         ELSE Loop(cons, Val(r1)[2], Symbol_init(Val(r1)[1]))

\* The match of the loop body on the element.
Scan_body(d, element, s) ==
  CASE d = "Stroke" -> Stroke_body(element, s)
    [] d = "TitleBlock" -> TitleBlock_body(element, s)
    [] d = "Symbol" -> Symbol_body(element, s)

\* A variant of Scan_next that takes the element read out of the record.
Scan_next_consuming(st, r) ==
  IF IsErr(r) THEN r
  ELSE <<"loop", [st EXCEPT !.cons = Cons(Car(st.cons), Cdr(st.rest)),
                            !.rest = Cdr(st.rest), !.slots = Val(r),
                            !.n = st.n + 1]>>

\* A variant of Scan_next that leaves the cursor on the element read.
Scan_next_staying(st, r) ==
  IF IsErr(r) THEN r
  ELSE <<"loop", [st EXCEPT !.slots = Val(r), !.n = st.n + 1]>>

\* `rest = cons.cdr()` and the outcome r of the body: an error returns,
\* otherwise the loop goes on from the tail of the pair just read.
Scan_next(st, r) ==
  IF IsErr(r) THEN r
  ELSE <<"loop", [st EXCEPT !.rest = Cdr(st.rest), !.slots = Val(r),
                            !.n = st.n + 1]>>

\* One iteration: `let cons = rest.expect_cons()?; let element = cons.car();`
Scan_iteration(d, st) ==
  IF ~IsCons(st.rest) THEN expect_cons(st.rest)
  ELSE Scan_next(st, Scan_body(d, Car(st.rest), st.slots))

(***************************************************************************)
(* Schematic and SchematicBusEntry (sch.rs)                                *)
(***************************************************************************)
\* A call that does not return: the panic of todo!().
Panic(msg) == <<"panic", msg>>

\* The inner loop of the lib_symbols arm.
RECURSIVE LibSymbols_scan(_, _)
LibSymbols_scan(cdr, slots) ==
  IF IsErr(slots) \/ IsNull(cdr) THEN slots
  ELSE IF ~IsCons(cdr) THEN expect_cons(cdr)
  ELSE LibSymbols_scan(Cdr(cdr),
                       PushFrom(Val(slots), "lib_symbols",
                                Symbol_try_from_value(Car(cdr))))

\* What a key without a match arm does.  `match key` has no `_` arm, which
\* the compiler rejects for a string; the arm a build has to add either
\* skips the element or reports it.
NoArmOutcomes == {"skip", "unexpected"}

\* The loop body of Schematic.  It is given the cursor r_cons since the
\* paper and title_block arms decode the cursor, not the element; these two
\* arms store the Result of the nested decode without `?`.  The expect_null
\* of version, generator_version and uuid is called without `?`.
Schematic_body(r_cons, s, other) ==
  LET element == Car(r_cons)
      k == expect_cons_with_any_symbol_head(Car(r_cons))
  IN
  IF IsErr(k) THEN k ELSE
  LET key == Val(k)[1]
      cdr == Val(k)[2]
  IN
  CASE key = "version" ->
         LET r == expect_cons_with_any_i64_head(cdr) IN
         IF IsErr(r) THEN r ELSE SetSlot(s, "version", Val(r)[1])
    [] key = "generator" ->
         LET r == expect_cons_with_any_symbol_head(cdr) IN
         IF IsErr(r) THEN r ELSE
         LET n == expect_null(Val(r)[2]) IN
         IF IsErr(n) THEN n ELSE SetSlot(s, "generator", Val(r)[1])
    [] key = "generator_version" ->
         LET r == expect_cons_with_any_symbol_head(cdr) IN
         IF IsErr(r) THEN r ELSE SetSlot(s, "generator_version", Val(r)[1])
    [] key = "uuid" ->
         LET r == expect_cons_with_any_symbol_head(cdr) IN
         IF IsErr(r) THEN r
         ELSE IF Val(r)[1] \in ValidUuids THEN SetSlot(s, "uuid", Val(r)[1])
         ELSE Err(<<"InvalidUuid", Val(r)[1]>>)
    [] key = "paper" -> SetSlot(s, "paper", Paper_try_from(r_cons))
    [] key = "title_block" ->
         SetSlot(s, "title_block", TitleBlock_try_from(r_cons))
    [] key = "lib_symbols" -> LibSymbols_scan(cdr, Ok(s))
    [] key = "junction" ->
         PushFrom(s, "junctions", SchematicJunction_try_from_value(element))
    [] key = "no_connect" ->
         PushFrom(s, "no_connects",
                  SchematicNoConnect_try_from_value(element))
    [] OTHER -> IF other = "skip" THEN Ok(s)
                ELSE Err(<<"Unexpected", element>>)

RECURSIVE Schematic_scan(_, _, _)
Schematic_scan(rest, slots, other) ==
  IF IsErr(slots) \/ IsNull(rest) THEN slots
  ELSE IF ~IsCons(rest) THEN expect_cons(rest)
  ELSE Schematic_scan(Cdr(rest), Schematic_body(rest, Val(slots), other),
                      other)

\* After the loop the function ends in todo!().
Schematic_todo(scan) ==
  IF IsErr(scan) THEN scan ELSE Panic("not yet implemented")

Schematic_try_from(cons, other) ==
  LET r0 == Cons_expect_cons_with_symbol_head(cons, "kicad_sch") IN
  IF IsErr(r0) THEN r0
  ELSE Schematic_todo(
         Schematic_scan(Val(r0),
                        Ok([version |-> None, generator |-> None,
                            generator_version |-> None, uuid |-> None,
                            paper |-> None, title_block |-> None,
                            lib_symbols |-> <<>>, junctions |-> <<>>,
                            no_connects |-> <<>>]),
                        other))

Schematic_try_from_value(value, other) ==
  impl_try_from_cons_value(value, Schematic_try_from(value, other))

\* The body of SchematicBusEntry::try_from is empty: it names neither a
\* record nor an error.
SchematicBusEntry_try_from(cons) == <<"unit">>

(***************************************************************************)
(* The matcher generated by sexpr! (kanga-sexpr-macro).                    *)
(*                                                                         *)
(* A shape is a record with a kind k: TypedSymbol, TypedList, SymbolFlag,  *)
(* DesList, Option or Vec.  The generated try_from runs the parser of each *)
(* field in turn over the cursor lv (the Greek lambda-v of the generated   *)
(* code) and then builds the struct from the variables the parsers set.    *)
(* A parser state is [lv, slots, err].                                     *)
(***************************************************************************)
TypedSymbol(sexpr_name, cat, ty) ==
  [k |-> "TypedSymbol", name |-> sexpr_name, cat |-> cat, ty |-> ty]
TypedList(sexpr_head, cat, ty) ==
  [k |-> "TypedList", name |-> sexpr_head, cat |-> cat, ty |-> ty]
SymbolFlag(sexpr_name) == [k |-> "SymbolFlag", name |-> sexpr_name]
DesList(sexpr_head, items) ==
  [k |-> "DesList", name |-> sexpr_head, items |-> items]
Option(inner) == [k |-> "Option", inner |-> inner]
Vec(inner) == [k |-> "Vec", inner |-> inner]

\* The fields of the structs declared with sexpr! in common.rs.
StructFields(rust_name) ==
  CASE rust_name = "Color" ->
         <<TypedSymbol("red", "Float", ""), TypedSymbol("green", "Float", ""),
           TypedSymbol("blue", "Float", ""),
           Option(TypedSymbol("alpha", "Float", ""))>>
    [] rust_name = "Position" ->
         <<TypedSymbol("x", "Float", ""), TypedSymbol("y", "Float", ""),
           Option(TypedSymbol("angle", "Float", ""))>>
    [] rust_name = "XY" ->
         <<TypedSymbol("x", "Float", ""), TypedSymbol("y", "Float", "")>>
    [] rust_name = "Points" ->
         <<Vec(TypedList("xy", "General", "XY"))>>
    [] rust_name = "TextJustify" ->
         <<Option(TypedSymbol("h_justify", "General", "HJustify")),
           Option(TypedSymbol("v_justify", "General", "VJustify")),
           SymbolFlag("mirror")>>

\* The symbols of the enums declared with sexpr! in common.rs, in
\* declaration order: the EXPECTED array of the generated try_from.
EnumSymbols(rust_name) ==
  CASE rust_name = "HJustify" -> <<"left", "right">>
    [] rust_name = "VJustify" -> <<"top", "bottom">>
    [] OTHER -> <<>>

SeqRange(s) == {s[i] : i \in 1..Len(s)}

\* The try_from generated for the enum rust_name.
Enum_try_from(rust_name, value) ==
  IF IsSymbol(value) /\ value[2] \in SeqRange(EnumSymbols(rust_name))
  THEN Ok(value[2])
  ELSE Err(<<"ExpectedEnumSymbol", value, EnumSymbols(rust_name)>>)

Fail(st, e) == [st EXCEPT !.err = Some(e)]
Failed(st) == IsSome(st.err)

RECURSIVE gen_parser_var_decls(_, _)
\* The variables declared before the parsers run: a vectored field starts
\* as an empty vector, every other variable is declared without a value.
gen_parser_var_decls(shape, m) ==
  CASE shape.k = "Option" -> gen_parser_var_decls(shape.inner, "Optional")
    [] shape.k = "Vec" -> gen_parser_var_decls(shape.inner, "Vectored")
    [] shape.k = "DesList" ->
         LET RECURSIVE Decls(_)
             Decls(i) == IF i > Len(shape.items) THEN <<>>
                         ELSE gen_parser_var_decls(shape.items[i], m)
                              @@ Decls(i + 1)
         IN Decls(1)
    [] OTHER -> IF m = "Vectored" THEN (shape.name :> <<>>) ELSE <<>>

RECURSIVE Macro_try_from(_, _)
RECURSIVE gen_parser(_, _, _)

\* The field_parser / ty_parser expression of a typed shape applied to the
\* element alpha: the leaf coercion by type category.
ty_parser(shape, alpha) ==
  CASE shape.cat = "Float" ->
         IF IsNumber(alpha) THEN Ok(AsF64(alpha))
         ELSE Err(<<"ExpectedFloat", alpha>>)
    [] shape.cat = "Int" ->
         IF alpha[1] = "int" THEN Ok(alpha[2])
         ELSE Err(<<"ExpectedInt", alpha>>)
    [] shape.cat = "String" ->
         IF IsStr(alpha) THEN Ok(alpha[2]) ELSE Err(<<"ExpectedStr", alpha>>)
    [] shape.cat = "Uuid" ->
         IF IsStr(alpha) /\ alpha[2] \in ValidUuids THEN Ok(alpha[2])
         ELSE Err(<<"ExpectedUuid", alpha>>)
    [] shape.cat = "General" ->
         IF EnumSymbols(shape.ty) # <<>> THEN Enum_try_from(shape.ty, alpha)
         ELSE Macro_try_from(shape.ty, alpha)

Advance(st, name, x) ==
  [st EXCEPT !.lv = Cdr(st.lv), !.slots = (name :> x) @@ st.slots]

Assign(st, name, x) == [st EXCEPT !.slots = (name :> x) @@ st.slots]

\* TypedSymbol::gen_std_parser
TypedSymbol_gen_std_parser(shape, st) ==
  IF ~IsCons(st.lv) THEN Fail(st, <<"ExpectedList", st.lv>>)
  ELSE LET r == ty_parser(shape, Car(st.lv)) IN
       IF IsOk(r) THEN Advance(st, shape.name, Val(r)) ELSE Fail(st, Val(r))

\* TypedSymbol::gen_optional_parser
TypedSymbol_gen_optional_parser(shape, st) ==
  IF ~IsCons(st.lv) THEN Assign(st, shape.name, None)
  ELSE LET r == ty_parser(shape, Car(st.lv)) IN
       IF IsOk(r) THEN Advance(st, shape.name, Some(Val(r)))
       ELSE Assign(st, shape.name, None)

\* TypedSymbol::gen_vectored_parser: one element at most is taken.
TypedSymbol_gen_vectored_parser(shape, st) ==
  IF ~IsCons(st.lv) THEN st
  ELSE LET r == ty_parser(shape, Car(st.lv)) IN
       IF IsOk(r)
       THEN Advance(st, shape.name, Append(st.slots[shape.name], Val(r)))
       ELSE st

\* TypedList::gen_std_parser: the element itself is compared with the head
\* symbol and then handed to the field parser.
TypedList_gen_std_parser(shape, st) ==
  IF ~IsCons(st.lv) THEN Fail(st, <<"ExpectedList", st.lv>>)
  ELSE LET alpha == Car(st.lv) IN
       IF alpha = Sym(shape.name)
       THEN LET r == ty_parser(shape, alpha) IN
            IF IsOk(r) THEN Advance(st, shape.name, Val(r))
            ELSE Fail(st, Val(r))
       ELSE Fail(st, <<"ExpectedSym", alpha>>)

\* TypedList::gen_optional_parser
TypedList_gen_optional_parser(shape, st) ==
  IF ~IsCons(st.lv) THEN Assign(st, shape.name, None)
  ELSE LET alpha == Car(st.lv) IN
       IF alpha = Sym(shape.name)
       THEN LET r == ty_parser(shape, alpha) IN
            IF IsOk(r) THEN Advance(st, shape.name, Some(Val(r)))
            ELSE Fail(st, Val(r))
       ELSE Assign(st, shape.name, None)

\* TypedList::gen_vectored_parser: one element at most is taken.
TypedList_gen_vectored_parser(shape, st) ==
  IF ~IsCons(st.lv) THEN st
  ELSE LET alpha == Car(st.lv) IN
       IF alpha = Sym(shape.name)
       THEN LET r == ty_parser(shape, alpha) IN
            IF IsOk(r)
            THEN Advance(st, shape.name, Append(st.slots[shape.name], Val(r)))
            ELSE Fail(st, Val(r))
       ELSE st

\* TypedSymbol::gen_parser
TypedSymbol_gen_parser(shape, m, st) ==
  CASE m = "None" -> TypedSymbol_gen_std_parser(shape, st)
    [] m = "Optional" -> TypedSymbol_gen_optional_parser(shape, st)
    [] m = "Vectored" -> TypedSymbol_gen_vectored_parser(shape, st)

\* TypedList::gen_parser
TypedList_gen_parser(shape, m, st) ==
  CASE m = "None" -> TypedList_gen_std_parser(shape, st)
    [] m = "Optional" -> TypedList_gen_optional_parser(shape, st)
    [] m = "Vectored" -> TypedList_gen_vectored_parser(shape, st)

\* SymbolFlag::gen_parser (FieldMod::None is the only modifier allowed).
SymbolFlag_gen_parser(shape, st) ==
  IF ~IsCons(st.lv) THEN Fail(st, <<"ExpectedList", st.lv>>)
  ELSE IF Car(st.lv) = Sym(shape.name) THEN Advance(st, shape.name, TRUE)
  ELSE Assign(st, shape.name, FALSE)

\* DesList::gen_parser: the items are parsed over the tail of the cursor in
\* an inner scope; afterwards the cursor is set to that same tail.
DesList_gen_parser(shape, m, st) ==
  LET RECURSIVE Items(_, _)
      Items(i, s) ==
        IF i > Len(shape.items) \/ Failed(s) THEN s
        ELSE Items(i + 1, gen_parser(shape.items[i], m, s))
  IN
  IF ~IsCons(st.lv)
  THEN IF m = "None" THEN Fail(st, <<"ExpectedList", st.lv>>) ELSE st
  ELSE IF Car(st.lv) = Sym(shape.name)
  THEN LET inner == Items(1, [st EXCEPT !.lv = Cdr(st.lv)]) IN
       IF Failed(inner) THEN inner ELSE [inner EXCEPT !.lv = Cdr(st.lv)]
  ELSE IF m = "None" THEN Fail(st, <<"ExpectedSym", Car(st.lv)>>) ELSE st

\* Shape::gen_parser
gen_parser(shape, m, st) ==
  CASE shape.k = "DesList" -> DesList_gen_parser(shape, m, st)
    [] shape.k = "Option" -> gen_parser(shape.inner, "Optional", st)
    [] shape.k = "Vec" -> gen_parser(shape.inner, "Vectored", st)
    [] shape.k = "SymbolFlag" -> SymbolFlag_gen_parser(shape, st)
    [] shape.k = "TypedSymbol" -> TypedSymbol_gen_parser(shape, m, st)
    [] shape.k = "TypedList" -> TypedList_gen_parser(shape, m, st)

\* StructDecl::gen_parse_impl: where the cursor starts.  The generated
\* try_from binds the cursor to the value it is given.
gen_parse_impl(fields, value) == value

\* The try_from generated for the struct rust_name.
Macro_try_from(rust_name, value) ==
  LET fields == StructFields(rust_name)
      RECURSIVE Decls(_)
      Decls(i) == IF i > Len(fields) THEN <<>>
                  ELSE gen_parser_var_decls(fields[i], "None") @@ Decls(i + 1)
      RECURSIVE Fields(_, _)
      Fields(i, s) ==
        IF i > Len(fields) \/ Failed(s) THEN s
        ELSE Fields(i + 1, gen_parser(fields[i], "None", s))
      end == Fields(1, [lv |-> gen_parse_impl(fields, value),
                        slots |-> Decls(1), err |-> None])
  IN IF Failed(end) THEN Err(end.err[2]) ELSE Ok(end.slots)

(***************************************************************************)
(* Code generation (StructDecl::gen).  gen_decl and then the parser        *)
(* generators run over every field with FieldMod::None; an assert! or a    *)
(* panic! in any of them aborts the macro, and the struct gets no matcher. *)
(* The operators are TRUE when the generator returns.                      *)
(***************************************************************************)
RECURSIVE Shape_gen_decl(_, _)
Shape_gen_decl(shape, m) ==
  CASE shape.k = "DesList" ->
         \A i \in 1..Len(shape.items) : Shape_gen_decl(shape.items[i], m)
    [] shape.k = "TypedList" -> TRUE
    [] shape.k = "Option" ->
         m = "None" /\ Shape_gen_decl(shape.inner, "Optional")
    [] shape.k = "SymbolFlag" -> m = "None"
    [] shape.k = "TypedSymbol" -> m # "Vectored"
    [] shape.k = "Vec" ->
         m = "None" /\ Shape_gen_decl(shape.inner, "Vectored")

\* A variant of Shape_gen_parser that generates a parser for a leaf of any
\* type.
RECURSIVE Shape_gen_parser_any_type(_, _)
Shape_gen_parser_any_type(shape, m) ==
  CASE shape.k = "DesList" ->
         \A i \in 1..Len(shape.items) :
           Shape_gen_parser_any_type(shape.items[i], m)
    [] shape.k = "Option" ->
         m = "None" /\ Shape_gen_parser_any_type(shape.inner, "Optional")
    [] shape.k = "SymbolFlag" -> m = "None"
    [] shape.k = "Vec" ->
         m = "None" /\ Shape_gen_parser_any_type(shape.inner, "Vectored")
    [] OTHER -> TRUE

\* Shape::gen_parser with gen_parser_var_decls: the asserts on the modifier
\* and the panic! of a type in no category.
RECURSIVE Shape_gen_parser(_, _)
Shape_gen_parser(shape, m) ==
  CASE shape.k = "DesList" ->
         \A i \in 1..Len(shape.items) : Shape_gen_parser(shape.items[i], m)
    [] shape.k = "TypedList" -> shape.cat # "Unsupported"
    [] shape.k = "Option" ->
         m = "None" /\ Shape_gen_parser(shape.inner, "Optional")
    [] shape.k = "SymbolFlag" -> m = "None"
    [] shape.k = "TypedSymbol" -> shape.cat # "Unsupported"
    [] shape.k = "Vec" ->
         m = "None" /\ Shape_gen_parser(shape.inner, "Vectored")

StructDecl_gen(fields) ==
  IF \A i \in 1..Len(fields) :
       Shape_gen_decl(fields[i], "None") /\ Shape_gen_parser(fields[i], "None")
  THEN Ok("matcher")
  ELSE Panic("code generation aborted")

(***************************************************************************)
(* f64 arithmetic of the serde helpers (kanga-kicad-parser/src/common.rs). *)
(*                                                                         *)
(* An f64 is [neg, m, e]: the number (-1)^neg * m * 2^e with m a natural   *)
(* of at most 53 bits.  Naturals that do not fit a machine integer of the  *)
(* model checker are sequences of limbs in base 2^15, least significant    *)
(* limb first.  A product is the exact product rounded to 53 significant   *)
(* bits, ties to even, as IEEE 754 binary64 multiplication rounds it; the  *)
(* exponents of the model stay far from the subnormal and overflow ranges. *)
(***************************************************************************)
RECURSIVE BigFromNat(_)
BigFromNat(n) ==
  IF n = 0 THEN <<>> ELSE <<n % 32768>> \o BigFromNat(n \div 32768)

RECURSIVE BigToNat(_)
BigToNat(a) == IF a = <<>> THEN 0 ELSE Head(a) + 32768 * BigToNat(Tail(a))

\* a * k + carry, for k and carry below 2^15.
RECURSIVE BigMulSmall(_, _, _)
BigMulSmall(a, k, carry) ==
  IF a = <<>> THEN BigFromNat(carry)
  ELSE <<(Head(a) * k + carry) % 32768>>
       \o BigMulSmall(Tail(a), k, (Head(a) * k + carry) \div 32768)

\* a + b + carry.
RECURSIVE BigAdd(_, _, _)
BigAdd(a, b, carry) ==
  IF a = <<>> /\ b = <<>> THEN BigFromNat(carry)
  ELSE LET x == IF a = <<>> THEN 0 ELSE Head(a)
           y == IF b = <<>> THEN 0 ELSE Head(b)
       IN <<(x + y + carry) % 32768>>
          \o BigAdd(IF a = <<>> THEN <<>> ELSE Tail(a),
                    IF b = <<>> THEN <<>> ELSE Tail(b),
                    (x + y + carry) \div 32768)

RECURSIVE BigMul(_, _)
BigMul(a, b) ==
  IF b = <<>> THEN <<>>
  ELSE BigAdd(BigMulSmall(a, Head(b), 0), <<0>> \o BigMul(a, Tail(b)), 0)

RECURSIVE BitLen(_)
BitLen(n) == IF n = 0 THEN 0 ELSE 1 + BitLen(n \div 2)

\* Number of significant bits of a (leading zero limbs do not count).
RECURSIVE BigBits(_)
BigBits(a) ==
  IF a = <<>> THEN 0
  ELSE IF BigBits(Tail(a)) > 0 THEN 15 + BigBits(Tail(a))
  ELSE BitLen(Head(a))

\* Bit i of a, bit 0 the least significant.
BigBit(a, i) ==
  IF i \div 15 + 1 > Len(a) THEN 0
  ELSE (a[i \div 15 + 1] \div 2^(i % 15)) % 2

\* floor(a / 2).
RECURSIVE BigHalf(_)
BigHalf(a) ==
  IF a = <<>> THEN <<>>
  ELSE <<Head(a) \div 2 + (IF Len(a) > 1 THEN (a[2] % 2) * 16384 ELSE 0)>>
       \o BigHalf(Tail(a))

\* floor(a / 2^k).
RECURSIVE BigShr(_, _)
BigShr(a, k) ==
  IF k = 0 \/ a = <<>> THEN a
  ELSE IF k >= 15 THEN BigShr(Tail(a), k - 15)
  ELSE BigShr(BigHalf(a), k - 1)

\* a / 2^k rounded to the nearest natural, ties to the even one (k >= 1).
BigShrNearestEven(a, k) ==
  IF /\ BigBit(a, k - 1) = 1
     /\ \/ BigBit(a, k) = 1
        \/ \E i \in 0..(k - 2) : BigBit(a, i) = 1
  THEN BigAdd(BigShr(a, k), <<1>>, 0)
  ELSE BigShr(a, k)

\* The f64 nearest to (-1)^neg * m * 2^e.
F64_round(neg, m, e) ==
  IF BigBits(m) <= 53 THEN [neg |-> neg, m |-> m, e |-> e]
  ELSE [neg |-> neg, m |-> BigShrNearestEven(m, BigBits(m) - 53),
        e |-> e + BigBits(m) - 53]

\* `x * y` of two f64.
F64_mul(x, y) == F64_round(x.neg # y.neg, BigMul(x.m, y.m), x.e + y.e)

\* `v as f64` of an integer (exact below 2^53).
F64_from_int(v) ==
  [neg |-> v < 0, m |-> BigFromNat(IF v < 0 THEN -v ELSE v), e |-> 0]

\* The literal 1e6, an integer.
F64_1e6 == F64_from_int(NmPerMm)

\* The literal 1e-6: the f64 nearest to it is 0x1.0c6f7a0b5ed8dp-20, that
\* is 4722366482869645 * 2^-72.
F64_1e_6 == [neg |-> FALSE, m |-> <<28045, 16747, 7134, 134>>, e |-> -72]

\* `x < 0.0`.
F64_is_negative(x) == x.neg /\ BigBits(x.m) > 0

\* `x as i64`: the integer part, toward zero.  Magnitudes of 2^63 and more,
\* which the cast saturates, are outside the model.
F64_as_i64(x) ==
  LET mag == IF x.e >= 0 THEN BigToNat(x.m) * 2^(x.e)
             ELSE BigToNat(BigShr(x.m, -x.e))
  IN IF x.neg THEN -mag ELSE mag

\* `x as u64`: the integer part, a negative number giving 0.
F64_as_u64(x) == IF x.neg THEN 0 ELSE F64_as_i64(x)

\* s.serialize_f64((*v as f64) * 1e-6)
serialize_nm_to_mm(v) == F64_mul(F64_from_int(v), F64_1e_6)

serialize_unsigned_nm_to_mm(v) == F64_mul(F64_from_int(v), F64_1e_6)

serialize_opt_nm_to_mm(v) ==
  IF IsSome(v) THEN Some(F64_mul(F64_from_int(v[2]), F64_1e_6)) ELSE None

\* Ok((v * 1e6) as i64)
deserialize_mm_to_nm(v) == Ok(F64_as_i64(F64_mul(v, F64_1e6)))

deserialize_mm_to_unsigned_nm(v) ==
  IF F64_is_negative(v) THEN Err(<<"custom", "negative value">>)
  ELSE Ok(F64_as_u64(F64_mul(v, F64_1e6)))

deserialize_mm_to_opt_nm(v) ==
  Ok(IF IsSome(v) THEN Some(F64_as_i64(F64_mul(v[2], F64_1e6))) ELSE None)

(***************************************************************************)
(* Inputs                                                                  *)
(***************************************************************************)
\* Floats of the inputs, in units of 1 / FloatDen nanometres when read as
\* millimetres: -1.25 nm and 1.5 nm.
FloatVals == {-5, 6, 9}

\* Sequences over S of length at most n.
SeqsUpTo(S, n) == UNION {[1..k -> S] : k \in 0..n}

\* Atoms that stand where a positional record expects a number.
ArgAtoms == {Flt(q) : q \in FloatVals} \cup {Sym("x")}

\* (head a1 ... an), n <= MaxArgs.
PositionalInputs(head) ==
  {List(<<Sym(head)>> \o s) : s \in SeqsUpTo(ArgAtoms, MaxArgs)}

\* (a1 ... an) without a head symbol, n <= MaxArgs.
BareInputs == {List(s) : s \in SeqsUpTo(ArgAtoms, MaxArgs)}

\* Elements of a `pts` list: two points, a bare symbol and a short point.
PointElems ==
  {List(<<Sym("xy"), Flt(-5), Flt(6)>>), List(<<Sym("xy"), Flt(6), Flt(6)>>),
   Sym("xy"), List(<<Sym("xy"), Flt(6)>>)}

\* (pts e1 ... en) and (e1 ... en), n <= MaxElems.
PointsInputs ==
  {List(<<Sym("pts")>> \o s) : s \in SeqsUpTo(PointElems, MaxElems)}
  \cup {List(s) : s \in SeqsUpTo(PointElems, MaxElems)}

\* Trees that are not a list headed by a symbol.
OddInputs == {Null, Sym("color"), Flt(3), Cons(Str("color"), Null),
              Cons(Sym("color"), Flt(3))}

(***************************************************************************)
(* Inputs of the keyed records: (head prefix e1 ... en), n <= MaxElems,    *)
(* the elements drawn from a small set for each record.                    *)
(***************************************************************************)
\* The element (key a1 ... an).
Elem(key, args) == List(<<Sym(key)>> \o args)

KeyedInputs(head, prefix, elems) ==
  {List(<<Sym(head)>> \o prefix \o s) : s \in SeqsUpTo(elems, MaxElems)}

AtElem == Elem("at", <<Flt(-5), Flt(6)>>)
ColorElem == Elem("color", <<Flt(6), Flt(6), Flt(6), Flt(6)>>)
UuidElem == Elem("uuid", <<Sym("u1")>>)
BogusElem == Elem("bogus", <<Flt(6)>>)
FontElem == Elem("font", <<Elem("size", <<Flt(6), Flt(6)>>)>>)
EffectsElem == Elem("effects", <<FontElem>>)

FillElems ==
  {Elem("type", <<Sym("outline")>>), Elem("type", <<Sym("bogus")>>),
   BogusElem}

StrokeElems ==
  {Elem("width", <<Flt(-5)>>), Elem("width", <<Flt(6)>>),
   Elem("type", <<Sym("solid")>>), ColorElem, BogusElem}

JunctionElems ==
  {AtElem, Elem("diameter", <<Flt(-5)>>), Elem("diameter", <<Flt(6)>>),
   ColorElem, UuidElem, BogusElem}

NoConnectElems ==
  {AtElem, UuidElem, Elem("uuid", <<Sym("bad")>>), BogusElem}

TitleBlockElems ==
  {Elem("title", <<Str("t")>>), Elem("comment", <<IntV(1), Str("c")>>),
   Elem("comment", <<Str("c"), IntV(1)>>), Elem("bogus", <<Str("s")>>),
   BogusElem}

FontElems ==
  {Elem("size", <<Flt(6), Flt(6)>>), Elem("thickness", <<Flt(-5)>>),
   Elem("line_spacing", <<Flt(6)>>), Sym("bold"), BogusElem}

TextEffectsElems ==
  {FontElem, Elem("justify", <<Sym("left")>>), Sym("hide"), BogusElem,
   Flt(6)}

PinElems ==
  {AtElem, Elem("length", <<Flt(-5)>>),
   Elem("name", <<Str("n"), EffectsElem>>),
   Elem("number", <<Str("1"), EffectsElem>>), BogusElem}

PropertyElems ==
  {Elem("id", <<IntV(1)>>), AtElem, Elem("effects", <<Sym("hide")>>),
   BogusElem}

SymbolElems ==
  {Elem("in_bom", <<Sym("yes")>>), Elem("in_bom", <<Sym("no")>>),
   Elem("on_board", <<Sym("yes")>>),
   Elem("property", <<Str("a"), Str("b")>>),
   Elem("property", <<Str("c"), Str("d")>>),
   Elem("pin_names", <<Elem("offset", <<Flt(-5)>>)>>), BogusElem}

ArcElems ==
  {Elem("start", <<Flt(6), Flt(9)>>), Elem("mid", <<Flt(9), Flt(6)>>),
   Elem("end", <<Flt(-5), Flt(6)>>),
   Elem("stroke", <<Elem("width", <<Flt(6)>>)>>),
   Elem("fill", <<Elem("type", <<Sym("outline")>>)>>), BogusElem}

\* Elements of a schematic: every key of the loop, with and without an
\* extra value after the single value, and nested records that decode and
\* that do not.
JunctionElem ==
  Elem("junction", <<AtElem, Elem("diameter", <<Flt(6)>>), ColorElem,
                     UuidElem>>)

SchematicElems ==
  {Elem("version", <<IntV(1)>>), Elem("version", <<IntV(1), IntV(2)>>),
   Elem("generator", <<Sym("eeschema")>>),
   Elem("generator", <<Sym("eeschema"), Sym("x")>>),
   Elem("generator_version", <<Sym("v9"), Sym("x")>>),
   UuidElem, Elem("uuid", <<Sym("u1"), Sym("x")>>),
   Elem("paper", <<Str("A4")>>), Elem("paper", <<Str("bad")>>),
   Elem("title_block", <<Elem("title", <<Str("t")>>)>>),
   Elem("title_block", <<Flt(6)>>),
   Elem("lib_symbols", <<Elem("symbol", <<Str("s")>>)>>),
   Elem("lib_symbols", <<Elem("symbol", <<Str("s")>>), BogusElem>>),
   JunctionElem, Elem("junction", <<AtElem>>),
   Elem("no_connect", <<AtElem, UuidElem>>), BogusElem}

SchematicInputs ==
  {List(<<Sym("kicad_sch")>> \o s) : s \in SeqsUpTo(SchematicElems, MaxSchElems)}

\* A symbol with one more element: `extends` with and without a value
\* after its single value, and `pin_names` holding a number.
SymbolExtraElems ==
  {Elem("extends", <<Str("a")>>), Elem("extends", <<Str("a"), Str("b")>>),
   Elem("pin_names", <<Flt(6)>>), Elem("pin_names", <<Sym("hide")>>),
   Elem("in_bom", <<>>), Elem("on_board", <<Null>>),
   Elem("in_bom", <<Sym("maybe")>>)}

SymbolExtraInputs ==
  {List(<<Sym("symbol"), Str("X"), e>>) : e \in SymbolExtraElems}

\* A font holding an element that is neither a list nor a symbol, and a
\* font whose `thickness` has a second value.
FontExtraInputs ==
  {List(<<Sym("font"), Elem("size", <<Flt(6), Flt(6)>>), e>>) :
     e \in {Flt(6), Str("a"), Elem("thickness", <<Flt(6), Flt(9)>>)}}

\* Pins whose electrical type or graphical style is not a known one.
PinExtraInputs ==
  {List(<<Sym("pin"), Sym("bogus"), Sym("line")>>),
   List(<<Sym("pin"), Sym("input"), Sym("bogus")>>),
   List(<<Sym("pin"), Str("input"), Sym("line")>>)}

\* Values given to expect_bool: the eight boolean symbols and another one,
\* the two booleans, the two empty values, and other atoms and a pair.
BoolSymbols == {"yes", "y", "true", "t", "no", "n", "false", "f", "maybe"}

BoolInputs ==
  {Sym(b) : b \in BoolSymbols}
  \cup {<<"bool", TRUE>>, <<"bool", FALSE>>, Null, <<"nil">>, Str("yes"),
        Flt(6), Cons(Sym("yes"), Null)}

\* Pairs given to both implementations of LexprExt: a head of every kind
\* of atom, an empty and a pair head; a null, an atom and a list tail.
PairHeads ==
  {Sym("color"), Sym("xy"), Str("a"), IntV(3), Flt(6), Null,
   Cons(Sym("xy"), Null)}

PairTails == {Null, Flt(6), Cons(Flt(6), Null)}

PairInputs == {Cons(a, d) : a \in PairHeads, d \in PairTails}

\* Values and symbols given to expect_cons_with_symbol_head.
HeadSymbols == {"color", "xy"}

\* A junction and a no_connect, complete but for the uuid, which is given
\* as a string or as a symbol, canonical ("u1") or malformed ("zz").
UuidTexts == {"u1", "zz"}
UuidAtoms == {Str(u) : u \in UuidTexts} \cup {Sym(u) : u \in UuidTexts}

JunctionWithUuid(u) ==
  List(<<Sym("junction"), AtElem, Elem("diameter", <<Flt(6)>>), ColorElem,
         Elem("uuid", <<u>>)>>)

NoConnectWithUuid(u) ==
  List(<<Sym("no_connect"), AtElem, Elem("uuid", <<u>>)>>)

\* Values given to an enumeration decoder: declared and undeclared
\* symbols, and values that are not symbols.
EnumNames == {"HJustify", "VJustify"}

LineStyleInputs ==
  {Elem("type", s) : s \in SeqsUpTo({Sym("solid"), Sym("dash"), Sym("bogus"),
                                      Str("solid")}, MaxCursor)}

\* Field shapes given to the code generator: leaves, a leaf of a type in
\* no category, flags, and Optional and Repeated wrapped around them and
\* around each other.
LeafShapes ==
  {TypedSymbol("x", "Float", ""), TypedSymbol("u", "Unsupported", ""),
   TypedList("xy", "General", "XY"), TypedList("w", "Unsupported", ""),
   SymbolFlag("bold"),
   DesList("size", <<TypedSymbol("x", "Float", "")>>),
   DesList("font", <<SymbolFlag("bold")>>)}

WrappedShapes == {Option(s) : s \in LeafShapes} \cup {Vec(s) : s \in LeafShapes}

SchemaShapes ==
  LeafShapes \cup WrappedShapes
  \cup {Option(s) : s \in WrappedShapes} \cup {Vec(s) : s \in WrappedShapes}

\* Records given to the scan taken step by step: proper lists, and lists
\* ending in a number instead of null.
ScanLists(head, prefix, elems, n) ==
  {ListFrom(<<Sym(head)>> \o prefix \o s, tail) :
     s \in SeqsUpTo(elems, n), tail \in {Null, Flt(3)}}

ScanInputs(d) ==
  CASE d = "Stroke" -> ScanLists("stroke", <<>>, StrokeElems, MaxElems)
    [] d = "TitleBlock" ->
         ScanLists("title_block", <<>>, TitleBlockElems, MaxElems)
    [] d = "Symbol" ->
         ScanLists("symbol", <<Str("X")>>, SymbolElems, MaxCursor)

\* Cursors handed to a single field parser: lists of bare symbols, a
\* number and headed lists, and a cursor that is not a list.
CursorElems ==
  {Sym("bold"), Sym("left"), Sym("top"), Sym("face"), Sym("xy"), Flt(6),
   Elem("xy", <<Flt(6), Flt(9)>>), Elem("face", <<Str("a")>>)}

Cursors == {List(s) : s \in SeqsUpTo(CursorElems, MaxCursor)} \cup {Str("a")}

\* Font: [bold].
FlagShapes == {SymbolFlag("bold")}

\* TextJustify: [h_justify: HJustify]; Font: [(face: String)].
OptionalShapes ==
  {Option(TypedSymbol("h_justify", "General", "HJustify")),
   Option(TypedList("face", "String", ""))}

\* Points: (xy: XY)*, and a repeated list of strings.  (A repeated typed
\* symbol has no matcher: TypedSymbol refuses the modifier in gen_decl.)
RepeatedShapes ==
  {Vec(TypedList("xy", "General", "XY")), Vec(TypedList("face", "String", ""))}

JustifyInputs ==
  {List(s) : s \in SeqsUpTo({Sym("justify"), Sym("left"), Sym("top"),
                             Sym("mirror"), Flt(6)}, MaxCursor + 1)}

\* Atoms after the head of a `paper` list.
PaperAtoms == {Str("User"), Str("A4"), Flt(6), Sym("portrait")}

PaperInputs ==
  {List(<<Sym("paper")>> \o s) : s \in SeqsUpTo(PaperAtoms, MaxArgs)}

(***************************************************************************)
(* The state machine: one decode call per behaviour.                       *)
(***************************************************************************)
Init ==
  /\ decoder = "none"
  /\ input = Null
  /\ result = None

\* No decoder has been called yet.
Idle == decoder = "none"

Call(name, v, r) ==
  /\ decoder' = name
  /\ input' = v
  /\ result' = r

DecodeColor ==
  /\ Idle
  /\ \E v \in PositionalInputs("color") \cup OddInputs :
       Call("Color", v, Color_try_from_value(v))

DecodePosition ==
  /\ Idle
  /\ \E v \in PositionalInputs("at") \cup OddInputs :
       Call("Position", v, Position_try_from_value(v))

DecodeSize ==
  /\ Idle
  /\ \E v \in PositionalInputs("size") \cup OddInputs :
       Call("Size", v, Size_try_from_value(v))

DecodePaper ==
  /\ Idle
  /\ \E v \in PaperInputs \cup OddInputs :
       Call("Paper", v, Paper_try_from_value(v))

DecodeFill ==
  /\ Idle
  /\ \E v \in KeyedInputs("fill", <<>>, FillElems) \cup OddInputs :
       Call("Fill", v, Fill_try_from_value(v))

DecodeStroke ==
  /\ Idle
  /\ \E v \in KeyedInputs("stroke", <<>>, StrokeElems) \cup OddInputs :
       Call("Stroke", v, Stroke_try_from_value(v))

DecodeJunction ==
  /\ Idle
  /\ \E v \in KeyedInputs("junction", <<>>, JunctionElems) \cup {JunctionWithUuid(u) : u \in UuidAtoms}
              \cup OddInputs :
       Call("SchematicJunction", v, SchematicJunction_try_from_value(v))

DecodeNoConnect ==
  /\ Idle
  /\ \E v \in KeyedInputs("no_connect", <<>>, NoConnectElems) \cup {NoConnectWithUuid(u) : u \in UuidAtoms}
              \cup OddInputs :
       Call("SchematicNoConnect", v, SchematicNoConnect_try_from_value(v))

DecodeTitleBlock ==
  /\ Idle
  /\ \E v \in KeyedInputs("title_block", <<>>, TitleBlockElems) \cup OddInputs :
       Call("TitleBlock", v, TitleBlock_try_from_value(v))

DecodeFont ==
  /\ Idle
  /\ \E v \in KeyedInputs("font", <<>>, FontElems) \cup FontExtraInputs
              \cup OddInputs :
       Call("Font", v, Font_try_from_value(v))

DecodeTextEffects ==
  /\ Idle
  /\ \E v \in KeyedInputs("effects", <<>>, TextEffectsElems) \cup OddInputs :
       Call("TextEffects", v, TextEffects_try_from_value(v))

DecodeSymbolPin ==
  /\ Idle
  /\ \E v \in KeyedInputs("pin", <<Sym("input"), Sym("line")>>, PinElems)
              \cup PinExtraInputs \cup OddInputs :
       Call("SymbolPin", v, SymbolPin_try_from_value(v))

DecodeSymbolProperty ==
  /\ Idle
  /\ \E v \in KeyedInputs("property", <<Str("k"), Str("v")>>, PropertyElems)
              \cup OddInputs :
       Call("SymbolProperty", v, SymbolProperty_try_from_value(v))

DecodeSymbol ==
  /\ Idle
  /\ \E v \in KeyedInputs("symbol", <<Str("X")>>, SymbolElems)
              \cup SymbolExtraInputs \cup OddInputs :
       Call("Symbol", v, Symbol_try_from_value(v))

\* The decoders generated by sexpr! for Color, Position and Points.
DecodeSymbolGraphicArc ==
  /\ Idle
  /\ \E v \in KeyedInputs("arc", <<>>, ArcElems) \cup OddInputs :
       Call("SymbolGraphicArc", v, SymbolGraphicArc_try_from_value(v))

DecodeSchematic ==
  /\ Idle
  /\ \E v \in SchematicInputs \cup OddInputs, other \in NoArmOutcomes :
       Call("Schematic", v, Schematic_try_from_value(v, other))

DecodeBusEntry ==
  /\ Idle
  /\ \E v \in OddInputs \cup {List(<<Sym("bus_entry")>>)} :
       Call("SchematicBusEntry", v,
            impl_try_from_cons_value(v, SchematicBusEntry_try_from(v)))

ExpectConsWithSymbolHead ==
  /\ Idle
  /\ \E v \in Cursors \cup CursorElems \cup OddInputs, symbol \in HeadSymbols :
       Call("expect_cons_with_symbol_head", <<v, symbol>>,
            expect_cons_with_symbol_head(v, symbol))

\* One operation of LexprExt called on a pair and on the value wrapping it.
ExpectOnPair ==
  /\ Idle
  /\ \E op \in LexprOps, c \in PairInputs, symbol \in HeadSymbols :
       Call("LexprExt", <<op, c, symbol>>,
            <<"both", Cons_expect(op, c, symbol), Value_expect(op, c, symbol)>>)

ExpectBool ==
  /\ Idle
  /\ \E v \in BoolInputs : Call("expect_bool", v, expect_bool(v))

DecodeLineStyle ==
  /\ Idle
  /\ \E v \in LineStyleInputs \cup OddInputs :
       Call("LineStyle", v, LineStyle_try_from_value(v))

MacroDecodeEnum ==
  /\ Idle
  /\ \E e \in EnumNames, v \in CursorElems \cup OddInputs :
       Call("MacroEnum", <<e, v>>, Enum_try_from(e, v))

GenerateStruct ==
  /\ Idle
  /\ \E first \in SchemaShapes, second \in SchemaShapes :
       Call("StructDecl_gen", <<first, second>>,
            StructDecl_gen(<<first, second>>))

ScanEnter ==
  /\ Idle
  /\ \E d \in ScanRecords :
       \E v \in ScanInputs(d) \cup {Cons(Sym("color"), Flt(3))} :
         Call("scan", <<d, v>>, Scan_enter(d, v))

ScanIterate ==
  /\ decoder = "scan"
  /\ IsLoop(result)
  /\ ~IsNull(result[2].rest)
  /\ result' = Scan_iteration(input[1], result[2])
  /\ UNCHANGED <<decoder, input>>

\* `Ok(Self { .. })` after the loop.
ScanLeave ==
  /\ decoder = "scan"
  /\ IsLoop(result)
  /\ IsNull(result[2].rest)
  /\ result' = Ok(result[2].slots)
  /\ UNCHANGED <<decoder, input>>

MacroDecodeColor ==
  /\ Idle
  /\ \E v \in PositionalInputs("color") \cup BareInputs \cup OddInputs :
       Call("MacroColor", v, Macro_try_from("Color", v))

MacroDecodePosition ==
  /\ Idle
  /\ \E v \in PositionalInputs("at") \cup BareInputs \cup OddInputs :
       Call("MacroPosition", v, Macro_try_from("Position", v))

MacroDecodePoints ==
  /\ Idle
  /\ \E v \in PointsInputs \cup OddInputs :
       Call("MacroPoints", v, Macro_try_from("Points", v))

MacroDecodeTextJustify ==
  /\ Idle
  /\ \E v \in JustifyInputs \cup OddInputs :
       Call("MacroTextJustify", v, Macro_try_from("TextJustify", v))

\* One generated field parser run on a cursor: the result is the parser
\* state it leaves.
FieldParser(shape, lv) ==
  <<"state", gen_parser(shape, "None",
                        [lv |-> lv, err |-> None,
                         slots |-> gen_parser_var_decls(shape, "None")])>>

ParseFlagField ==
  /\ Idle
  /\ \E shape \in FlagShapes, lv \in Cursors :
       Call("SymbolFlag", <<shape, lv>>, FieldParser(shape, lv))

ParseOptionalField ==
  /\ Idle
  /\ \E shape \in OptionalShapes, lv \in Cursors :
       Call("Optional", <<shape, lv>>, FieldParser(shape, lv))

ParseRepeatedField ==
  /\ Idle
  /\ \E shape \in RepeatedShapes, lv \in Cursors :
       Call("Repeated", <<shape, lv>>, FieldParser(shape, lv))

\* A length field serialized with serialize_nm_to_mm and read back with
\* deserialize_mm_to_nm; the carrier format returns the f64 it was given.
SerdeNm ==
  /\ Idle
  /\ \E n \in (-MaxNm)..MaxNm :
       Call("serde_nm", n, deserialize_mm_to_nm(serialize_nm_to_mm(n)))

SerdeUnsignedNm ==
  /\ Idle
  /\ \E n \in 0..MaxNm :
       Call("serde_unsigned_nm", n,
            deserialize_mm_to_unsigned_nm(serialize_unsigned_nm_to_mm(n)))

SerdeOptNm ==
  /\ Idle
  /\ \E v \in {None} \cup {Some(n) : n \in (-MaxNm)..MaxNm} :
       Call("serde_opt_nm", v,
            deserialize_mm_to_opt_nm(serialize_opt_nm_to_mm(v)))

Next ==
  \/ DecodeColor
  \/ DecodePosition
  \/ DecodeSize
  \/ DecodePaper
  \/ DecodeFill
  \/ DecodeStroke
  \/ DecodeJunction
  \/ DecodeNoConnect
  \/ DecodeTitleBlock
  \/ DecodeFont
  \/ DecodeTextEffects
  \/ DecodeSymbolPin
  \/ DecodeSymbolProperty
  \/ DecodeSymbol
  \/ DecodeSymbolGraphicArc
  \/ DecodeSchematic
  \/ DecodeBusEntry
  \/ ExpectBool
  \/ ExpectOnPair
  \/ DecodeLineStyle
  \/ MacroDecodeEnum
  \/ ScanEnter
  \/ ScanIterate
  \/ ScanLeave
  \/ GenerateStruct
  \/ ExpectConsWithSymbolHead
  \/ MacroDecodeColor
  \/ MacroDecodePosition
  \/ MacroDecodePoints
  \/ MacroDecodeTextJustify
  \/ ParseFlagField
  \/ ParseOptionalField
  \/ ParseRepeatedField
  \/ SerdeNm
  \/ SerdeUnsignedNm
  \/ SerdeOptNm

Spec == Init /\ [][Next]_vars

(***************************************************************************)
(* Predicates on inputs and results used by the properties below.          *)
(***************************************************************************)
\* v is the proper list (head n1 ... nk) of the symbol head and k numbers.
HeadedNumbers(v, head, k) ==
  /\ IsProperList(v)
  /\ Len(Elements(v)) = k + 1
  /\ Elements(v)[1] = Sym(head)
  /\ \A i \in 2..(k + 1) : IsNumber(Elements(v)[i])

\* The i-th number after the head of the list v, as a float.
Arg(v, i) == AsF64(Elements(v)[i + 1])

FailsWith(r, kind) == IsErr(r) /\ ErrKind(r) = kind

\* v is (xy x y) with two numbers.
IsXY(v) == HeadedNumbers(v, "xy", 2)

(***************************************************************************)
(* C1.  A positional record with a trailing Optional leaf: (color r g b)   *)
(* decodes to red, green, blue with alpha unset, (color r g b a) with      *)
(* alpha set to a; (at x y) decodes with angle unset and (at x y a) with   *)
(* angle set to a.  Stated of the hand-written decoders and of the         *)
(* decoders generated by sexpr!.                                           *)
(***************************************************************************)
C1_OptionalLeaf ==
  /\ (decoder \in {"Color", "MacroColor"} /\ HeadedNumbers(input, "color", 3))
       => result = Ok([red |-> Arg(input, 1), green |-> Arg(input, 2),
                       blue |-> Arg(input, 3), alpha |-> None])
  /\ (decoder \in {"Color", "MacroColor"} /\ HeadedNumbers(input, "color", 4))
       => result = Ok([red |-> Arg(input, 1), green |-> Arg(input, 2),
                       blue |-> Arg(input, 3),
                       alpha |-> Some(Arg(input, 4))])
  /\ (decoder \in {"Position", "MacroPosition"}
      /\ HeadedNumbers(input, "at", 2))
       => (IsOk(result) /\ Val(result).angle = None)
  /\ (decoder \in {"Position", "MacroPosition"}
      /\ HeadedNumbers(input, "at", 3))
       => (IsOk(result) /\ Val(result).angle = Some(Arg(input, 3)))

(***************************************************************************)
(* C2.  In a closed positional record an element left over after the last  *)
(* schema field makes the decode fail with ExpectedNil: a color list with  *)
(* five numbers, a position with four, a size with three.  Stated of the   *)
(* hand-written decoders and of the decoders generated by sexpr!.          *)
(***************************************************************************)
C2_TrailingRejected ==
  /\ (decoder \in {"Color", "MacroColor"} /\ HeadedNumbers(input, "color", 5))
       => FailsWith(result, "ExpectedNil")
  /\ (decoder \in {"Position", "MacroPosition"}
      /\ HeadedNumbers(input, "at", 4))
       => FailsWith(result, "ExpectedNil")
  /\ (decoder = "Size" /\ HeadedNumbers(input, "size", 3))
       => FailsWith(result, "ExpectedNil")

(***************************************************************************)
(* C3.  A Repeated field collects every matching element in input order:   *)
(* (pts e1 ... en) with each ei of the form (xy x y) decodes to exactly n  *)
(* points, the i-th holding the x and y of ei; (pts) decodes to no points. *)
(***************************************************************************)
C3_RepeatedCollectsAll ==
  (/\ decoder = "MacroPoints"
   /\ IsProperList(input)
   /\ Len(Elements(input)) >= 1
   /\ Elements(input)[1] = Sym("pts")
   /\ \A i \in 2..Len(Elements(input)) : IsXY(Elements(input)[i]))
  => result = Ok([xy |-> [i \in 1..(Len(Elements(input)) - 1) |->
                            [x |-> Arg(Elements(input)[i + 1], 1),
                             y |-> Arg(Elements(input)[i + 1], 2)]]])

(***************************************************************************)
(* The keyed records as the properties below speak of them: the decoder    *)
(* applied by each action, the head symbol, the leaves that precede the    *)
(* keyed elements, and the keys of the match arms.                         *)
(***************************************************************************)
KeyedDecoders ==
  {"Fill", "Stroke", "SchematicJunction", "SchematicNoConnect", "TitleBlock",
   "Font", "TextEffects", "SymbolPin", "SymbolProperty", "Symbol"}

Decode(d, v) ==
  CASE d = "Fill" -> Fill_try_from_value(v)
    [] d = "Stroke" -> Stroke_try_from_value(v)
    [] d = "SchematicJunction" -> SchematicJunction_try_from_value(v)
    [] d = "SchematicNoConnect" -> SchematicNoConnect_try_from_value(v)
    [] d = "TitleBlock" -> TitleBlock_try_from_value(v)
    [] d = "Font" -> Font_try_from_value(v)
    [] d = "TextEffects" -> TextEffects_try_from_value(v)
    [] d = "SymbolPin" -> SymbolPin_try_from_value(v)
    [] d = "SymbolProperty" -> SymbolProperty_try_from_value(v)
    [] d = "Symbol" -> Symbol_try_from_value(v)
    [] d = "Paper" -> Paper_try_from_value(v)
    [] d = "Position" -> Position_try_from_value(v)
    [] d = "Size" -> Size_try_from_value(v)

HeadOf(d) ==
  CASE d = "Fill" -> "fill"
    [] d = "Stroke" -> "stroke"
    [] d = "SchematicJunction" -> "junction"
    [] d = "SchematicNoConnect" -> "no_connect"
    [] d = "TitleBlock" -> "title_block"
    [] d = "Font" -> "font"
    [] d = "TextEffects" -> "effects"
    [] d = "SymbolPin" -> "pin"
    [] d = "SymbolProperty" -> "property"
    [] d = "Symbol" -> "symbol"

\* The number of positional leaves between the head and the keyed elements.
LeavesOf(d) ==
  CASE d \in {"SymbolPin", "SymbolProperty"} -> 2
    [] d = "Symbol" -> 1
    [] OTHER -> 0

SingularKeys(d) ==
  CASE d = "Fill" -> {"type"}
    [] d = "Stroke" -> {"width", "type", "color"}
    [] d = "SchematicJunction" -> {"at", "diameter", "color", "uuid"}
    [] d = "SchematicNoConnect" -> {"at", "uuid"}
    [] d = "TitleBlock" -> {"title", "date", "rev", "company"}
    [] d = "Font" -> {"face", "size", "thickness", "line_spacing"}
    [] d = "TextEffects" -> {"font", "justify"}
    [] d = "SymbolPin" -> {"at", "length", "name", "number"}
    [] d = "SymbolProperty" -> {"id", "at", "effects"}
    [] d = "Symbol" -> {"exclude_from_sim", "in_bom", "on_board", "extends",
                        "pin_names", "pin_numbers"}

RepeatedKeys(d) ==
  CASE d = "Symbol" -> {"property", "arc", "pin"}
    [] d = "TitleBlock" -> {"comment"}
    [] OTHER -> {}

SchemaKeys(d) == SingularKeys(d) \cup RepeatedKeys(d)

RequiredKeys(d) ==
  CASE d = "SchematicJunction" -> {"at", "diameter", "color", "uuid"}
    [] d = "SchematicNoConnect" -> {"at", "uuid"}
    [] d = "Font" -> {"size"}
    [] d = "SymbolPin" -> {"at", "length", "name", "number"}
    [] OTHER -> {}

\* The input is a proper list (head leaves... elements...) of the decoder.
IsKeyedInput ==
  /\ decoder \in KeyedDecoders
  /\ IsProperList(input)
  /\ Len(Elements(input)) >= LeavesOf(decoder) + 1
  /\ Elements(input)[1] = Sym(HeadOf(decoder))

\* The head and the leaves of a keyed input, and its keyed elements.
Leading(v, d) == SubSeq(Elements(v), 1, LeavesOf(d) + 1)
Fields(v, d) == SubSeq(Elements(v), LeavesOf(d) + 2, Len(Elements(v)))

\* The input rebuilt with other keyed elements.
WithFields(v, d, fs) == List(Leading(v, d) \o fs)

IsKeyedElem(e) == IsCons(e) /\ IsSymbol(Car(e))
KeyOf(e) == IF IsKeyedElem(e) THEN Car(e)[2] ELSE ""

\* The element alone is accepted by the record: the record with only this
\* element decodes, or fails only for the fields that are then missing.
ElemValid(v, d, e) ==
  LET r == Decode(d, WithFields(v, d, <<e>>)) IN
  IsOk(r) \/ FailsWith(r, "MissingField")

Swap(s, i, j) ==
  [k \in 1..Len(s) |-> IF k = i THEN s[j] ELSE IF k = j THEN s[i] ELSE s[k]]

(***************************************************************************)
(* C4.  In a keyed record, a second element with the key of a singular     *)
(* field makes the decode fail with DuplicateField naming the record: when *)
(* every element up to that second occurrence is acceptable on its own,    *)
(* the result is DuplicateField, never a record in which the second value  *)
(* replaced the first.                                                     *)
(***************************************************************************)
C4_DuplicateRejected ==
  IsKeyedInput =>
    LET fs == Fields(input, decoder) IN
    \A j \in 1..Len(fs) :
      (/\ KeyOf(fs[j]) \in SingularKeys(decoder)
       /\ \E i \in 1..(j - 1) : KeyOf(fs[i]) = KeyOf(fs[j])
       /\ \A k \in 1..j : ElemValid(input, decoder, fs[k]))
      => (/\ FailsWith(result, "DuplicateField")
          /\ result[2][2] = HeadOf(decoder))

(***************************************************************************)
(* C5.  In a keyed record whose elements are each acceptable and supply    *)
(* every required field except f, the decode fails with MissingField       *)
(* naming the head symbol of the record and the s-expression key of f: a   *)
(* pin without `number` gives MissingField("pin", "number"), a pin without *)
(* `at` gives MissingField("pin", "at").                                   *)
(***************************************************************************)
C5_MissingFieldNamesKey ==
  IsKeyedInput =>
    LET fs == Fields(input, decoder)
        keys == {KeyOf(fs[k]) : k \in 1..Len(fs)}
    IN
    \A f \in RequiredKeys(decoder) :
      (/\ f \notin keys
       /\ RequiredKeys(decoder) \ {f} \subseteq keys
       /\ \A k \in 1..Len(fs) : ElemValid(input, decoder, fs[k]))
      => (/\ FailsWith(result, "MissingField")
          /\ result[2][2] = HeadOf(decoder)
          /\ result[2][3] = f)

(***************************************************************************)
(* C6.  In every keyed record, an element whose key is none of the keys of *)
(* the record makes the decode fail: when the elements before it are       *)
(* acceptable the result is Unexpected carrying that element, and no input *)
(* holding such an element decodes to a record.                            *)
(***************************************************************************)
C6_UnknownKeyRejected ==
  IsKeyedInput =>
    LET fs == Fields(input, decoder) IN
    \A j \in 1..Len(fs) :
      (IsKeyedElem(fs[j]) /\ KeyOf(fs[j]) \notin SchemaKeys(decoder))
      => (/\ IsErr(result)
          /\ (\A k \in 1..(j - 1) : ElemValid(input, decoder, fs[k]))
               => result = Err(<<"Unexpected", fs[j]>>))

(***************************************************************************)
(* C7 as stated.  Two Symbol inputs with the same id that differ by any    *)
(* exchange of two keyed sub-elements decode to identical records.         *)
(***************************************************************************)
C7_AnyPermutation ==
  (decoder = "Symbol" /\ IsKeyedInput /\ IsOk(result)) =>
    LET fs == Fields(input, decoder) IN
    \A i, j \in 1..Len(fs) :
      Decode("Symbol", WithFields(input, decoder, Swap(fs, i, j))) = result

\* Exchanging the i-th and j-th elements keeps every two elements that have
\* the same key in their relative order.
KeepsOrderWithinKeys(fs, i, j) ==
  /\ i < j
  /\ \A k \in i..j : k # i => KeyOf(fs[k]) # KeyOf(fs[i])
  /\ \A k \in i..j : k # j => KeyOf(fs[k]) # KeyOf(fs[j])

(***************************************************************************)
(* C7.  Two Symbol inputs with the same id that differ by an exchange of   *)
(* two keyed sub-elements which keeps the elements of each key in their    *)
(* relative order decode to identical records (`in_bom` before `on_board`  *)
(* or after it).  Elements with the same key are not covered: the order of *)
(* two `property` elements is the order of the decoded properties.         *)
(***************************************************************************)
C7_OrderIndependent ==
  (decoder = "Symbol" /\ IsKeyedInput /\ IsOk(result)) =>
    LET fs == Fields(input, decoder) IN
    \A i, j \in 1..Len(fs) :
      KeepsOrderWithinKeys(fs, i, j) =>
        Decode("Symbol", WithFields(input, decoder, Swap(fs, i, j))) = result

\* A symbol decoded from elements of at least three different keys, with
\* in_bom and on_board set and a property collected.
C7_Witness ==
  /\ decoder = "Symbol"
  /\ IsKeyedInput
  /\ IsOk(result)
  /\ Val(result).in_bom = Some(TRUE)
  /\ Val(result).on_board = Some(TRUE)
  /\ Len(Val(result).properties) = 1
  /\ KeepsOrderWithinKeys(Fields(input, decoder), 1, 3)

(***************************************************************************)
(* C8 as stated.  Exchanging the two numbers of a decodable (at x y) or    *)
(* (size h w), x # y and h # w, makes the decode fail.                     *)
(***************************************************************************)
C8_SwapAlwaysFails ==
  \A d \in {"Position", "Size"} :
    (/\ decoder = d
     /\ HeadedNumbers(input, IF d = "Position" THEN "at" ELSE "size", 2)
     /\ Arg(input, 1) # Arg(input, 2)
     /\ IsOk(result))
    => IsErr(Decode(d, List(Swap(Elements(input), 2, 3))))

TypeMismatchKinds ==
  {"ExpectedSymbol", "ExpectedListSymbolHead", "ExpectedListStrHead",
   "ExpectedListFloatHead", "ExpectedListIntHead"}

(***************************************************************************)
(* C8.  In a positional record, exchanging two leaves of different types   *)
(* in a decodable input makes the decode fail with ExpectedSymbol or a     *)
(* type-mismatch error (the name and a number of (paper "User" h w));      *)
(* exchanging two leaves of the same type is not detected: the two numbers *)
(* of (at x y) or of (size h w) exchanged decode with the two values       *)
(* stored in each other's field.                                           *)
(***************************************************************************)
C8_SwapOfDifferentTypesFails ==
  /\ (decoder = "Paper" /\ IsProperList(input) /\ IsOk(result)) =>
       LET es == Elements(input) IN
       \A i, j \in 2..Len(es) :
         es[i][1] # es[j][1] =>
           LET r == Decode("Paper", List(Swap(es, i, j))) IN
           IsErr(r) /\ ErrKind(r) \in TypeMismatchKinds
  /\ (decoder = "Position" /\ HeadedNumbers(input, "at", 2) /\ IsOk(result))
       => Decode("Position", List(Swap(Elements(input), 2, 3)))
            = Ok([Val(result) EXCEPT !.x = Val(result).y,
                                     !.y = Val(result).x])
  /\ (decoder = "Size" /\ HeadedNumbers(input, "size", 2) /\ IsOk(result))
       => Decode("Size", List(Swap(Elements(input), 2, 3)))
            = Ok([width |-> Val(result).height,
                  height |-> Val(result).width])

\* A user-sized paper decoded from a name and two numbers.
C8_Witness ==
  /\ decoder = "Paper"
  /\ IsOk(result)
  /\ Val(result).paper_size[1] = "User"
  /\ Len(Elements(input)) = 4

(***************************************************************************)
(* Truncation toward zero, stated without the division of the conversion:  *)
(* the integer n of the sign of q with |n| nanometres <= |q| < |n| + 1.    *)
(***************************************************************************)
Abs(n) == IF n >= 0 THEN n ELSE -n

Truncated(q) ==
  CHOOSE n \in (-Abs(q))..Abs(q) :
    /\ (q >= 0) => (n >= 0)
    /\ (q <= 0) => (n <= 0)
    /\ Abs(n) * FloatDen <= Abs(q)
    /\ Abs(q) < (Abs(n) + 1) * FloatDen

\* The numbers q of the elements (key q) among the keyed elements fs.
NumbersOf(fs, key) ==
  {AsF64(Elements(fs[k])[2]) :
     k \in {k \in 1..Len(fs) : /\ HeadedNumbers(fs[k], key, 1)}}

\* The offsets q of the elements (pin_names (offset q)) among fs.
OffsetsOf(fs) ==
  UNION {NumbersOf(Fields(fs[k], "Fill"), "offset") :
           k \in {k \in 1..Len(fs) : KeyOf(fs[k]) = "pin_names"}}

(***************************************************************************)
(* C9.  Every length decoded from millimetres is stored as the nanometres  *)
(* obtained by truncating millimetres * 1_000_000 toward zero: Position x  *)
(* and y, Size width and height, Font thickness and line_spacing, Stroke   *)
(* width, pin length, pin-name offset and junction diameter.               *)
(***************************************************************************)
C9_TruncatedTowardZero ==
  IsOk(result) =>
    LET r == Val(result)
        fs == Fields(input, decoder)
        Stored(slot, key) ==
          IsSome(slot) => slot[2] \in {Truncated(q) : q \in NumbersOf(fs, key)}
    IN
    /\ (decoder = "Position") =>
         (r.x = Truncated(Arg(input, 1)) /\ r.y = Truncated(Arg(input, 2)))
    /\ (decoder = "Size") =>
         (/\ r.height = Truncated(Arg(input, 1))
          /\ r.width = Truncated(Arg(input, 2)))
    /\ (decoder = "Font") =>
         (/\ Stored(r.thickness, "thickness")
          /\ Stored(r.line_spacing, "line_spacing"))
    /\ (decoder = "Stroke") => Stored(r.width, "width")
    /\ (decoder = "SymbolPin") => Stored(Some(r.length), "length")
    /\ (decoder = "Symbol") =>
         r.pin_names.offset \in {0} \cup {Truncated(q) : q \in OffsetsOf(fs)}
    /\ (decoder = "SchematicJunction") =>
         Stored(Some(r.diameter), "diameter")

(***************************************************************************)
(* C10.  Decoding a Size from the millimetre values of (size h w) fails    *)
(* with InvalidWidth when the width is negative, with InvalidHeight when   *)
(* the width is not negative and the height is; it returns a Size only     *)
(* when neither is negative, and the Size then holds the two truncated     *)
(* values.                                                                 *)
(***************************************************************************)
C10_NegativeSizeRejected ==
  (decoder = "Size" /\ HeadedNumbers(input, "size", 2)) =>
    LET height == Arg(input, 1)
        width == Arg(input, 2)
    IN
    /\ width < 0 => result = Err(<<"InvalidWidth", width>>)
    /\ (width >= 0 /\ height < 0) => result = Err(<<"InvalidHeight", height>>)
    /\ (width >= 0 /\ height >= 0) =>
         result = Ok([width |-> Truncated(width),
                      height |-> Truncated(height)])
    /\ IsOk(result) => (width >= 0 /\ height >= 0)

\* A size with both values negative, decoded to InvalidWidth.
C10_Witness ==
  /\ decoder = "Size"
  /\ HeadedNumbers(input, "size", 2)
  /\ Arg(input, 1) < 0
  /\ Arg(input, 2) < 0
  /\ FailsWith(result, "InvalidWidth")

(***************************************************************************)
(* C11.  Round trip of a length: every nanometre value n, serialized to    *)
(* millimetres and deserialized again, gives n; the same for the unsigned  *)
(* and the optional helpers.                                               *)
(***************************************************************************)
C11_LengthRoundTrip ==
  /\ decoder \in {"serde_nm", "serde_unsigned_nm"} => result = Ok(input)
  /\ decoder = "serde_opt_nm" => result = Ok(input)

(***************************************************************************)
(* C12.  Fail-fast propagation: an error raised inside a nested record,    *)
(* here the `paper` or `title_block` element of a schematic, aborts the    *)
(* whole decode and is returned to the caller; it is never swallowed or    *)
(* stored.                                                                 *)
(***************************************************************************)
NestedRecord(e) ==
  IF KeyOf(e) = "paper" THEN Paper_try_from_value(e)
  ELSE TitleBlock_try_from_value(e)

C12_NestedErrorAborts ==
  (/\ decoder = "Schematic"
   /\ IsCons(input)
   /\ Car(input) = Sym("kicad_sch")
   /\ IsCons(Cdr(input))
   /\ KeyOf(Car(Cdr(input))) \in {"paper", "title_block"}
   /\ IsErr(NestedRecord(Car(Cdr(input)))))
  => IsErr(result)

(***************************************************************************)
(* C13.  Every entry point, Schematic and SchematicBusEntry included,      *)
(* returns a record or exactly one ParseError: no decode panics or ends    *)
(* without a result.                                                       *)
(***************************************************************************)
C13_RecordOrError ==
  decoder \in {"Schematic", "SchematicBusEntry"} =>
    (IsOk(result) \/ IsErr(result))

(***************************************************************************)
(* C14.  When required fields are missing, the MissingField returned names *)
(* the first missing field in schema declaration order (junction: at,      *)
(* diameter, color, uuid; arc: start, mid, end, stroke, fill), whatever    *)
(* the order of the elements that are present.                             *)
(***************************************************************************)
DeclaredOrder(d) ==
  IF d = "SchematicJunction" THEN <<"at", "diameter", "color", "uuid">>
  ELSE <<"start", "mid", "end", "stroke", "fill">>

RecordHead(d) == IF d = "SchematicJunction" THEN "junction" ELSE "arc"

DecodeRecord(d, v) ==
  IF d = "SchematicJunction" THEN SchematicJunction_try_from_value(v)
  ELSE SymbolGraphicArc_try_from_value(v)

\* The keys of the elements after the head.
PresentKeys(v) == {KeyOf(Elements(v)[i]) : i \in 2..Len(Elements(v))}

MissingKeys(d, v) ==
  {i \in 1..Len(DeclaredOrder(d)) : DeclaredOrder(d)[i] \notin PresentKeys(v)}

FirstMissing(d, v) ==
  DeclaredOrder(d)[CHOOSE i \in MissingKeys(d, v) :
                     \A j \in MissingKeys(d, v) : i <= j]

\* Every element after the head is one the record accepts when alone.
AllElementsAccepted(d, v) ==
  \A i \in 2..Len(Elements(v)) :
    LET r == DecodeRecord(d, List(<<Sym(RecordHead(d)), Elements(v)[i]>>)) IN
    IsOk(r) \/ FailsWith(r, "MissingField")

C14_FirstMissingInSchemaOrder ==
  \A d \in {"SchematicJunction", "SymbolGraphicArc"} :
    (/\ decoder = d
     /\ IsProperList(input)
     /\ IsCons(input)
     /\ Car(input) = Sym(RecordHead(d))
     /\ AllElementsAccepted(d, input)
     /\ MissingKeys(d, input) # {})
    => result = Err(<<"MissingField", RecordHead(d), FirstMissing(d, input),
                      input>>)

\* A junction given only its uuid and then its color: at and diameter are
\* both missing and the error names at.
C14_Witness ==
  /\ decoder = "SchematicJunction"
  /\ IsProperList(input)
  /\ Len(Elements(input)) = 3
  /\ KeyOf(Elements(input)[2]) = "uuid"
  /\ KeyOf(Elements(input)[3]) = "color"
  /\ result = Err(<<"MissingField", "junction", "at", input>>)

\* An arc given its fill and then its end: the error names start.
C14_WitnessArc ==
  /\ decoder = "SymbolGraphicArc"
  /\ IsProperList(input)
  /\ Len(Elements(input)) = 3
  /\ KeyOf(Elements(input)[2]) = "fill"
  /\ KeyOf(Elements(input)[3]) = "end"
  /\ result = Err(<<"MissingField", "arc", "start", input>>)

(***************************************************************************)
(* C15.  A Flag field is set true and the cursor advances by one element   *)
(* exactly when the current element is the bare symbol of the flag; in     *)
(* every other case, a different element and an exhausted list included,   *)
(* the flag is false, the cursor is unchanged and no error is raised.      *)
(***************************************************************************)
C15_FlagField ==
  decoder = "SymbolFlag" =>
    LET shape == input[1]
        lv == input[2]
        st == result[2]
    IN
    /\ ~Failed(st)
    /\ IF IsCons(lv) /\ Car(lv) = Sym(shape.name)
       THEN st.slots[shape.name] = TRUE /\ st.lv = Cdr(lv)
       ELSE st.slots[shape.name] = FALSE /\ st.lv = lv

(***************************************************************************)
(* C16.  When the one-element lookahead of an Optional field does not      *)
(* match its inner shape, or the list is exhausted, the slot is left unset *)
(* and the cursor is not advanced, so the next field is matched against    *)
(* the same element: `(justify top)` decodes with the horizontal           *)
(* justification unset and the vertical justification top.                 *)
(***************************************************************************)
\* The cursor is a pair whose element is consistent with the inner shape:
\* a list headed by the expected symbol, or a leaf of the expected type.
LookaheadMatches(inner, lv) ==
  /\ IsCons(lv)
  /\ IF inner.k = "TypedList"
     THEN IsCons(Car(lv)) /\ Car(Car(lv)) = Sym(inner.name)
     ELSE IsOk(ty_parser(inner, Car(lv)))

C16_OptionalLookahead ==
  /\ decoder = "Optional" =>
       LET inner == input[1].inner
           lv == input[2]
           st == result[2]
       IN
       ~LookaheadMatches(inner, lv) =>
         /\ ~Failed(st)
         /\ st.slots[inner.name] = None
         /\ st.lv = lv
  /\ (decoder = "MacroTextJustify"
      /\ input = List(<<Sym("justify"), Sym("top")>>)) =>
       /\ IsOk(result)
       /\ Val(result)["h_justify"] = None
       /\ Val(result)["v_justify"] = Some("top")

(***************************************************************************)
(* C17.  When a Repeated field meets an element that does not match its    *)
(* inner shape, or the end of the list, it stops without an error and      *)
(* without consuming that element: its slot is a list and the cursor still *)
(* holds the element.                                                      *)
(***************************************************************************)
C17_RepeatedStops ==
  decoder = "Repeated" =>
    LET inner == input[1].inner
        lv == input[2]
        st == result[2]
    IN
    ~LookaheadMatches(inner, lv) =>
      /\ ~Failed(st)
      /\ st.slots[inner.name] = <<>>
      /\ st.lv = lv

(***************************************************************************)
(* C18.  A headed sub-list that carries a single value (version,           *)
(* generator, generator_version, uuid, extends, face, thickness, width,    *)
(* length, id) is rejected when an element follows the value: the decode   *)
(* fails and the record is never accepted with the trailing content        *)
(* ignored.                                                                *)
(***************************************************************************)
SingleValueKeys ==
  {"version", "generator", "generator_version", "uuid", "extends", "face",
   "thickness", "width", "length", "id"}

\* A single-value sub-list with something after its value.
HasTrailing(e) ==
  /\ IsKeyedElem(e)
  /\ KeyOf(e) \in SingleValueKeys
  /\ Len(Elements(e)) >= 3

C18_TrailingRejected ==
  (/\ decoder \in {"Symbol", "Font", "Stroke", "SymbolPin", "SymbolProperty",
                   "SchematicJunction", "SchematicNoConnect", "Schematic"}
   /\ IsCons(input)
   /\ \E i \in 2..Len(Elements(input)) : HasTrailing(Elements(input)[i]))
  => IsErr(result)

(***************************************************************************)
(* C19.  expect_cons_with_symbol_head(s) classifies in a fixed order: a    *)
(* value that is not a pair fails with ExpectedList; a pair whose head is  *)
(* not a symbol fails with ExpectedListSymbolHead; a pair whose head       *)
(* symbol differs from s fails with ExpectedSymbol carrying the whole      *)
(* value and s; otherwise the result is exactly the tail of the pair.      *)
(***************************************************************************)
C19_SymbolHeadClassification ==
  decoder = "expect_cons_with_symbol_head" =>
    LET v == input[1]
        s == input[2]
    IN
    result = IF ~IsCons(v) THEN Err(<<"ExpectedList", v>>)
             ELSE IF ~IsSymbol(Car(v))
             THEN Err(<<"ExpectedListSymbolHead", v>>)
             ELSE IF Car(v) # Sym(s) THEN Err(<<"ExpectedSymbol", v, s>>)
             ELSE Ok(Cdr(v))

\* A pair headed by another symbol, answered with ExpectedSymbol.
C19_Witness ==
  /\ decoder = "expect_cons_with_symbol_head"
  /\ IsCons(input[1])
  /\ IsSymbol(Car(input[1]))
  /\ Car(input[1]) # Sym(input[2])
  /\ result = Err(<<"ExpectedSymbol", input[1], input[2]>>)

(***************************************************************************)
(* C20.  In the keyed scan of a record that allows bare flags (Font,       *)
(* TextEffects, pin_names), an element that is neither a pair nor a bare   *)
(* symbol, such as a number or a string, makes the decode fail; it is      *)
(* never skipped.                                                          *)
(***************************************************************************)
HasAtomElement(v) ==
  \E i \in 2..Len(Elements(v)) :
    ~IsCons(Elements(v)[i]) /\ ~IsSymbol(Elements(v)[i])

C20_AtomElementRejected ==
  /\ (decoder \in {"Font", "TextEffects"} /\ IsCons(input)
      /\ HasAtomElement(input))
     => IsErr(result)
  /\ (decoder = "Symbol" /\ IsCons(input)
      /\ \E i \in 2..Len(Elements(input)) :
           /\ KeyOf(Elements(input)[i]) = "pin_names"
           /\ HasAtomElement(Elements(input)[i]))
     => IsErr(result)

(***************************************************************************)
(* C21.  Decoding an enumeration maps each declared symbol to its own      *)
(* variant and fails for every other input with an error that carries the  *)
(* offending value and the list of expected symbols in declaration order;  *)
(* it never falls back to the default variant.                             *)
(***************************************************************************)
DeclaredSymbols(e) ==
  IF e = "HJustify" THEN <<"left", "right">> ELSE <<"top", "bottom">>

DeclaredLineStyles ==
  <<"dash", "dash_dot", "dash_dot_dot", "dot", "default", "solid">>

\* The error carries the offending value and then the expected symbols.
CarriesValueAndExpected(r, value, expected) ==
  /\ IsErr(r)
  /\ Len(r[2]) = 3
  /\ r[2][2] = value
  /\ r[2][3] = expected

C21_EnumDecoding ==
  /\ decoder = "MacroEnum" =>
       LET e == input[1]
           v == input[2]
       IN
       IF IsSymbol(v) /\ v[2] \in SeqRange(DeclaredSymbols(e))
       THEN result = Ok(v[2])
       ELSE CarriesValueAndExpected(result, v, DeclaredSymbols(e))
  /\ (decoder = "LineStyle" /\ IsProperList(input)
      /\ Len(Elements(input)) = 2 /\ Elements(input)[1] = Sym("type")) =>
       LET v == Elements(input)[2] IN
       IF IsSymbol(v) /\ v[2] \in SeqRange(DeclaredLineStyles)
       THEN result = Ok(v[2])
       ELSE CarriesValueAndExpected(result, v, DeclaredLineStyles)

(***************************************************************************)
(* C22.  The uuid of a junction and of a no_connect is decoded from a      *)
(* string atom: a string holding a canonical identifier yields that        *)
(* identifier, a string holding malformed text yields the                  *)
(* invalid-identifier error carrying that text.                            *)
(***************************************************************************)
UuidOutcome(text, r) ==
  IF text \in ValidUuids THEN IsOk(r) /\ Val(r).uuid = text
  ELSE r = Err(<<"InvalidUuid", text>>)

C22_UuidFromString ==
  \A text \in UuidTexts :
    /\ (decoder = "SchematicJunction" /\ input = JunctionWithUuid(Str(text)))
       => UuidOutcome(text, result)
    /\ (decoder = "SchematicNoConnect" /\ input = NoConnectWithUuid(Str(text)))
       => UuidOutcome(text, result)

(***************************************************************************)
(* C23.  Schema construction rejects every ill-formed shape: an Optional   *)
(* directly wrapping a Repeated or an Optional, a Repeated directly        *)
(* wrapping an Optional or a Repeated, a Flag under an Optional or         *)
(* Repeated modifier, and a leaf whose type is in no supported category    *)
(* each abort code generation, so no matcher is produced for them.         *)
(***************************************************************************)
RECURSIVE IllFormed(_, _)
IllFormed(shape, modified) ==
  CASE shape.k \in {"Option", "Vec"} ->
         shape.inner.k \in {"Option", "Vec"} \/ IllFormed(shape.inner, TRUE)
    [] shape.k = "SymbolFlag" -> modified
    [] shape.k \in {"TypedSymbol", "TypedList"} -> shape.cat = "Unsupported"
    [] shape.k = "DesList" ->
         \E i \in 1..Len(shape.items) : IllFormed(shape.items[i], modified)

RECURSIVE IsSuffix(_, _)
\* c is the list v or what is left of it after some pairs.
IsSuffix(c, v) == c = v \/ (IsCons(v) /\ IsSuffix(c, Cdr(v)))

LeadingValues(d) == IF d = "Symbol" THEN 2 ELSE 1

C28_ScanAdvancesOneElement ==
  [][(decoder = "scan" /\ IsLoop(result)) =>
       LET d == input[1]
           st == result[2]
       IN
       /\ IsSuffix(st.rest, input[2])
       /\ st.n + Len(Elements(st.rest)) + LeadingValues(d)
            = Len(Elements(input[2]))
       /\ IsLoop(result') =>
            /\ IsCons(st.rest)
            /\ result'[2].rest = Cdr(st.rest)
            /\ result'[2].n = st.n + 1
       /\ (~IsCons(st.rest) /\ ~IsNull(st.rest)) =>
            result' = Err(<<"ExpectedList", st.rest>>)
       /\ IsOk(result') => IsNull(st.rest)]_vars

\* A list of two elements ending in a number: after two iterations the
\* scan ended with ExpectedList carrying the number.
C28_Witness ==
  /\ decoder = "scan"
  /\ Len(Elements(input[2])) = 2 + LeadingValues(input[1])
  /\ result = Err(<<"ExpectedList", Flt(3)>>)

(***************************************************************************)
(* C25.  A Size list stores its first number as the height and its second  *)
(* as the width: (size a b) with a and b not negative decodes to           *)
(* height = truncate(a * 1e6) and width = truncate(b * 1e6), and a list    *)
(* headed `size` with fewer or more than two numbers is rejected.          *)
(***************************************************************************)
\* v is a proper list of the symbol `size` followed by numbers only.
SizeOfNumbers(v) ==
  /\ IsProperList(v)
  /\ Elements(v) # <<>>
  /\ HeadedNumbers(v, "size", Len(Elements(v)) - 1)

C25_SizeHeightFirst ==
  (decoder = "Size" /\ SizeOfNumbers(input)) =>
    /\ (Len(Elements(input)) = 3 /\ Arg(input, 1) >= 0 /\ Arg(input, 2) >= 0)
         => result = Ok([height |-> Truncated(Arg(input, 1)),
                         width |-> Truncated(Arg(input, 2))])
    /\ Len(Elements(input)) # 3 => IsErr(result)

\* A size of two different lengths decoded, the first stored as the height.
C25_Witness ==
  /\ decoder = "Size"
  /\ SizeOfNumbers(input)
  /\ Len(Elements(input)) = 3
  /\ IsOk(result)
  /\ Val(result).height = Truncated(Arg(input, 1))
  /\ Val(result).height # Val(result).width

(***************************************************************************)
(* C26.  expect_bool on a value returns true for the symbols yes, y, true, *)
(* t and for a true boolean, false for the symbols no, n, false, f, for a  *)
(* false boolean and for a null value, and Unexpected carrying the value   *)
(* for every other input; and a boolean keyed element of a Symbol written  *)
(* with no value, (in_bom), decodes to false rather than to an error.      *)
(***************************************************************************)
\* The truth table of expect_bool.
BoolTable(v) ==
  IF v \in {Sym("yes"), Sym("y"), Sym("true"), Sym("t"), <<"bool", TRUE>>}
  THEN Ok(TRUE)
  ELSE IF v \in {Sym("no"), Sym("n"), Sym("false"), Sym("f"),
                 <<"bool", FALSE>>, Null, <<"nil">>}
  THEN Ok(FALSE)
  ELSE Err(<<"Unexpected", v>>)

\* v is (symbol "id" (key)) for a boolean key of Symbol.
SymbolWithBareFlag(v) ==
  /\ IsProperList(v)
  /\ Len(Elements(v)) = 3
  /\ Elements(v)[1] = Sym("symbol")
  /\ IsStr(Elements(v)[2])
  /\ Elements(v)[3] \in
       {Elem(key, <<>>) : key \in {"exclude_from_sim", "in_bom", "on_board"}}

C26_TruthTable ==
  (decoder = "expect_bool") => result = BoolTable(input)

C26_ExpectBool ==
  /\ C26_TruthTable
  /\ (decoder = "Symbol" /\ SymbolWithBareFlag(input)) =>
       /\ IsOk(result)
       /\ Val(result)[Car(Elements(input)[3])[2]] = Some(FALSE)

(***************************************************************************)
(* C30.  The two implementations of LexprExt agree: every operation        *)
(* called on a pair c and called on the value that wraps c gives the same  *)
(* success result, or the same error kind with an equal payload.           *)
(***************************************************************************)
C30_ConsAndValueAgree ==
  (decoder = "LexprExt") => result[2] = result[3]

\* expect_cons_with_any_i64_head on a pair headed by a float: both
\* implementations fail with ExpectedListIntHead carrying the pair.
C30_Witness ==
  /\ decoder = "LexprExt"
  /\ input[1] = "expect_cons_with_any_i64_head"
  /\ Car(input[2])[1] = "flt"
  /\ result[2] = Err(<<"ExpectedListIntHead", input[2]>>)
  /\ result[3] = result[2]

(***************************************************************************)
(* C29.  Decoding a junction never returns a record when the value of its  *)
(* `diameter` element is negative: a negative diameter is reported as an   *)
(* error, as deserialize_mm_to_unsigned_nm reports it, and is never stored *)
(* as an unsigned nanometre value.                                         *)
(***************************************************************************)
\* v is a list holding an element (diameter q) with q negative.
HasNegativeDiameter(v) ==
  /\ IsProperList(v)
  /\ \E i \in 1..Len(Elements(v)) :
       /\ HeadedNumbers(Elements(v)[i], "diameter", 1)
       /\ Arg(Elements(v)[i], 1) < 0

C29_NegativeDiameterRejected ==
  (decoder = "SchematicJunction" /\ HasNegativeDiameter(input)) =>
    IsErr(result)

(***************************************************************************)
(* C27.  Every value carried in the payload of a decode error              *)
(* (ExpectedList, ExpectedListFloatHead/IntHead/StrHead/SymbolHead,        *)
(* ExpectedNil, ExpectedSymbol, Unexpected, MissingField, DuplicateField)  *)
(* is equal to the input tree or to one of its sub-expressions: an         *)
(* element, a remaining list, or the whole record for MissingField.        *)
(***************************************************************************)
\* x is the tree v, an element of it or a remaining list of it, at any depth.
RECURSIVE IsSubExpr(_, _)
IsSubExpr(x, v) ==
  \/ x = v
  \/ /\ IsCons(v)
     /\ \/ IsSubExpr(x, Car(v))
        \/ IsSubExpr(x, Cdr(v))

\* The error kinds whose payload holds a value, and where it stands.
ValueAt(kind) ==
  CASE kind \in {"ExpectedList", "ExpectedListFloatHead",
                 "ExpectedListIntHead", "ExpectedListStrHead",
                 "ExpectedListSymbolHead", "ExpectedNil", "ExpectedSymbol",
                 "Unexpected"} -> 2
    [] kind \in {"MissingField", "DuplicateField"} -> 4
    [] OTHER -> 0

\* The tree the decoder of the current state was given.
InputTree ==
  CASE decoder \in {"expect_cons_with_symbol_head"} -> input[1]
    [] decoder \in {"LexprExt", "MacroEnum", "scan", "SymbolFlag",
                    "Optional", "Repeated"} -> input[2]
    [] OTHER -> input

\* The results the decoder of the current state returned.
Returned ==
  CASE decoder = "LexprExt" -> {result[2], result[3]}
    [] result[1] = "state" ->
         IF Failed(result[2]) THEN {Err(result[2].err[2])} ELSE {}
    [] OTHER -> {result}

CarriesSubExpr(r) ==
  (IsErr(r) /\ ValueAt(ErrKind(r)) # 0) =>
    IsSubExpr(r[2][ValueAt(ErrKind(r))], InputTree)

C27_PayloadIsSubExpression ==
  (decoder \notin {"none", "StructDecl_gen", "serde_nm",
                   "serde_unsigned_nm", "serde_opt_nm"}) =>
    \A r \in Returned : CarriesSubExpr(r)

\* A pin whose electrical type is not a known one: the error carries a
\* symbol equal to the type symbol of the input, a proper sub-expression.
C27_Witness ==
  /\ decoder = "SymbolPin"
  /\ FailsWith(result, "Unexpected")
  /\ IsSymbol(result[2][2])
  /\ result[2][2] # input
  /\ IsSubExpr(result[2][2], input)

====
